---- MODULE Spec2Model ----
(***************************************************************************)
(* State-machine model of the MemGraph memory engine: the SQLite fact      *)
(* store, the Chroma episode store, the Neo4j relation store, the Bedrock  *)
(* gateway (completion and embeddings), the extractor, and the service     *)
(* operations write_memory, search_memory and forget_memory.               *)
(*                                                                         *)
(* Numbers: confidences and importances are tenths (6 stands for 0.6);     *)
(* times are whole days.                                                    *)
(***************************************************************************)
EXTENDS Integers, Sequences, FiniteSets, TLC

\* ------------------------------------------------------------------ universe
Owners == {"u1", "u2"}
Keys == {"k1", "k2"}
Values == {"v1", "v2"}
Channels == {"email"}
\* request timestamps (the caller's ts string, ordered as text)
TsValues == {1, 2}
\* confidences a reasoning output may carry, in tenths
ConfValues == {3, 6, 9}

\* settings.default_confidence_threshold, in tenths
DefaultConfidenceThreshold == 6
\* the min_conf search_memory passes to get_facts, in tenths
SearchMinConf == 6

VARIABLES
    facts,        \* rows of the SQLite table facts
    lastUpsert,   \* history: value of the last successful upsert_fact per (guid, key)
    kvRet,        \* what the last direct FactStore call returned
    episodes,     \* documents of the Chroma collection episodes_mem
    nextId,       \* source of fresh episode ids (uuid4)
    gNodes,       \* nodes of the Neo4j graph
    gEdges,       \* relationships of the Neo4j graph
    graph_store,  \* the lazily built module-level Neo4jGraphStore (None or ready)
    now,          \* the wall clock, in days
    settings,     \* the Settings instance
    wr,           \* the write_memory calls in progress, per caller
    extractIO,    \* extract_all: the two reasoning outputs and the result
    embedIO,      \* titan_embed: the texts, the gateway outcomes and the result
    pathIO,       \* shortest_path_len / graph_proximity_score: arguments and results
    searchIO,     \* search_memory: the request and the result
    forgetIO,     \* forget_memory: the request and the result
    queryIO,      \* a direct query_similar call: the arguments and the hits
    summarizeIO,  \* summarize_memory: the request and the result
    scoreIO       \* a direct calculate_score call: the arguments and the result

kvVars == <<facts, lastUpsert, kvRet>>
epVars == <<episodes, nextId>>
graphVars == <<gNodes, gEdges, graph_store>>
ioVars == <<extractIO, embedIO, pathIO, searchIO, forgetIO, queryIO, summarizeIO>>
vars == <<facts, lastUpsert, kvRet, episodes, nextId, gNodes, gEdges, graph_store,
          now, settings, wr, extractIO, embedIO, pathIO, searchIO, forgetIO,
          queryIO, summarizeIO, scoreIO>>

NoValue == "none"

\* ------------------------------------------------------------------ settings
\* Settings(): the defaults of app/core/config.py
DefaultSettings ==
    [max_retries |-> 3, retry_delay |-> 1, max_embedding_chunk_size |-> 32,
     default_confidence_threshold |-> DefaultConfidenceThreshold]

\* ------------------------------------------------------------------ FactStore
FactRow(g, k, v, c, src, ts) ==
    [guid |-> g, key |-> k, value |-> v, confidence |-> c, source |-> src, ts |-> ts]

RowsOf(table, g, k) == {r \in table : r.guid = g /\ r.key = k}

\* a store that keeps the old row when the primary key is already taken
InsertOrIgnore(table, row) ==
    IF RowsOf(table, row.guid, row.key) = {} THEN table \cup {row} ELSE table

\* a store that lets the row with the newer request timestamp win
InsertNewestTs(table, row) ==
    IF \E r \in RowsOf(table, row.guid, row.key) : r.ts > row.ts THEN table
    ELSE (table \ RowsOf(table, row.guid, row.key)) \cup {row}

\* INSERT OR REPLACE under PRIMARY KEY (guid, key): the conflicting row goes
InsertOrReplace(table, row) ==
    (table \ RowsOf(table, row.guid, row.key)) \cup {row}

\* a DELETE whose WHERE names the key alone
DeleteWhereKey(table, g, k) == {r \in table : r.key # k}

\* DELETE FROM facts WHERE guid = ? AND key = ?
DeleteWhere(table, g, k) == table \ RowsOf(table, g, k)

\* upsert_fact: with ok the row is committed (returns True); without, an
\* exception was caught and nothing changed (returns False)
upsert_fact(g, k, v, c, src, ts, ok) ==
    IF ok
    THEN /\ facts' = InsertOrReplace(facts, FactRow(g, k, v, c, src, ts))
         /\ lastUpsert' = [lastUpsert EXCEPT ![<<g, k>>] = v]
    ELSE UNCHANGED <<facts, lastUpsert>>

\* a delete_fact that returns True whenever the statement ran
delete_fact_returns_ran(table, g, k, ok) == ok

\* delete_fact: returns cursor.rowcount > 0, or False on any exception
delete_fact_returns(table, g, k, ok) == ok /\ RowsOf(table, g, k) # {}

delete_fact(g, k, ok) ==
    /\ facts' = (IF ok THEN DeleteWhere(facts, g, k) ELSE facts)
    /\ UNCHANGED lastUpsert

\* the orders SELECT ... ORDER BY confidence DESC, ts DESC may give the rows in
IsFactOrder(sq) ==
    \A i, j \in 1..Len(sq) :
        i < j => \/ sq[i].confidence > sq[j].confidence
                 \/ sq[i].confidence = sq[j].confidence /\ sq[i].ts >= sq[j].ts

RECURSIVE Orderings(_)
Orderings(S) ==
    IF S = {} THEN {<<>>}
    ELSE UNION {{<<x>> \o t : t \in Orderings(S \ {x})} : x \in S}

\* get_facts(guid, min_conf): the possible result lists of a successful read
get_facts(table, g, min_conf) ==
    {sq \in Orderings({r \in table : r.guid = g /\ r.confidence >= min_conf}) :
        IsFactOrder(sq)}

\* ------------------------------------------------------------------ reasoning output
\* A value where the extractor expects a number: the field is absent, a number,
\* or something that does not compare with a float (null, a string).
Absent == [t |-> "absent", v |-> 0]
NonNumber == [t |-> "other", v |-> 0]
Num(n) == [t |-> "num", v |-> n]

\* item.get(field, 0) >= threshold: TypeError on a non-number
Comparable(x) == x.t # "other"
GetOrZero(x) == IF x.t = "num" THEN x.v ELSE 0

\* A reasoning output: kind says what json.loads makes of the text; for an
\* object, keys are the top-level keys present and a, b its two lists
\* (facts, episodes for the first call; entities, triples for the second).
Response(kind, keys, a, b) == [kind |-> kind, keys |-> keys, a |-> a, b |-> b]
NonObjectKinds == {"empty", "text", "null", "number", "string", "list"}
NonObjectResponses == {Response(kd, {}, <<>>, <<>>) : kd \in NonObjectKinds}

SeqsUpTo(S, n) == UNION {[1..m -> S] : m \in 0..n}

ObjectResponses(nameA, itemsA, maxA, nameB, itemsB, maxB) ==
    {Response("object", ks, IF nameA \in ks THEN la ELSE <<>>,
                            IF nameB \in ks THEN lb ELSE <<>>) :
        ks \in SUBSET {nameA, nameB},
        la \in SeqsUpTo(itemsA, maxA), lb \in SeqsUpTo(itemsB, maxB)}

ValidTypes ==
    {"Person", "Place", "DateRange", "Preference", "Task", "Product", "Org", "Event"}
ValidPredicates ==
    {"PREFERS", "PLANS", "OCCURS_ON", "HAS_SIZE", "HAS_ROLE", "MENTIONS", "RELATED_TO"}

\* ------------------------------------------------------------------ Extractor
\* what a call hands back: a value, or an exception that leaves the function
Returned(v) == [raised |-> FALSE, val |-> v]
Raised == [raised |-> TRUE, val |-> Response("null", {}, <<>>, <<>>)]

\* some item of the list makes `item.get("confidence", 0) >= threshold` raise
HasNonNumber(sq) == \E i \in 1..Len(sq) : ~Comparable(sq[i].confidence)

\* a filter that lets every listed fact through
KeepEveryFact(sq, threshold) == sq

\* [f for f in result["facts"] if f.get("confidence", 0) >= threshold]
KeepFacts(sq, threshold) ==
    SelectSeq(sq, LAMBDA f : GetOrZero(f.confidence) >= threshold)

\* [e for e in result["episodes"] if e.get("importance", 0) >= threshold]
\* (the importance is the item's confidence field in this model)
KeepEpisodes(sq, threshold) ==
    SelectSeq(sq, LAMBDA e : GetOrZero(e.confidence) >= threshold)

\* entities: e.get("type") in valid_types and e.get("confidence", 0) >= threshold
KeepEntities(sq, threshold) ==
    SelectSeq(sq, LAMBDA e : e.type \in ValidTypes
                             /\ GetOrZero(e.confidence) >= threshold)

\* triples: t.get("predicate") in valid_predicates and confidence >= threshold
KeepTriples(sq, threshold) ==
    SelectSeq(sq, LAMBDA t : t.predicate \in ValidPredicates
                             /\ GetOrZero(t.confidence) >= threshold)

\* extract_structured:
\*   try: result = json.loads(response); filter result["facts"], result["episodes"]
\*   except json.JSONDecodeError: return {"facts": [], "episodes": []}
extract_structured(resp, threshold) ==
    IF resp.kind \in {"empty", "text"}
    THEN \* json.JSONDecodeError, caught
         Returned(Response("object", {"facts", "episodes"}, <<>>, <<>>))
    ELSE IF resp.kind \in {"null", "number"}
    THEN \* "facts" in None, "facts" in 3: TypeError, not caught
         Raised
    ELSE IF resp.kind \in {"string", "list"}
    THEN \* "facts" is not in it: the string or list itself is returned
         Returned(resp)
    ELSE IF HasNonNumber(resp.a) \/ HasNonNumber(resp.b)
    THEN \* None >= 0.6, "high" >= 0.6: TypeError, not caught
         Raised
    ELSE Returned(Response("object", resp.keys, KeepFacts(resp.a, threshold),
                           KeepEpisodes(resp.b, threshold)))

\* extract_triples: the same shape for entities and triples
extract_triples(resp, threshold) ==
    IF resp.kind \in {"empty", "text"}
    THEN Returned(Response("object", {"entities", "triples"}, <<>>, <<>>))
    ELSE IF resp.kind \in {"null", "number"}
    THEN Raised
    ELSE IF resp.kind \in {"string", "list"}
    THEN Returned(resp)
    ELSE IF HasNonNumber(resp.a) \/ HasNonNumber(resp.b)
    THEN Raised
    ELSE Returned(Response("object", resp.keys, KeepEntities(resp.a, threshold),
                           KeepTriples(resp.b, threshold)))

Extraction(fs, es, ents, ts) ==
    [raised |-> FALSE, facts |-> fs, episodes |-> es, entities |-> ents, triples |-> ts]
ExtractionRaised ==
    [raised |-> TRUE, facts |-> <<>>, episodes |-> <<>>, entities |-> <<>>,
     triples |-> <<>>]

\* extract_all: both calls in sequence, then structured.get(...) and
\* triples.get(...), which raise AttributeError on a string or a list
extract_all(r1, r2, threshold) ==
    LET structured == extract_structured(r1, threshold)
        triples == extract_triples(r2, threshold)
    IN  IF structured.raised \/ triples.raised THEN ExtractionRaised
        ELSE IF structured.val.kind # "object" \/ triples.val.kind # "object"
        THEN ExtractionRaised
        ELSE Extraction(structured.val.a, structured.val.b,
                        triples.val.a, triples.val.b)

\* ------------------------------------------------------------------ gateway: embeddings
\* Embeddings are 2-vectors here (1536 floats in the code).  The vector Titan
\* gives each text of the model:
Texts == {"t1", "t2", "s1", "e1", "E1 e2", "recent activity", ""}
TextEmbedding(t) ==
    CASE t = "t1" -> <<1, 0>>
      [] t = "t2" -> <<0, 1>>
      [] t = "s1" -> <<3, 4>>
      [] t = "e1" -> <<4, 3>>
      [] t = "E1 e2" -> <<3, 4>>
      [] t = "recent activity" -> <<4, 3>>
      [] OTHER -> <<0, 1>>

\* [0.0] * 1536
ZeroEmbedding == <<0, 0>>

\* texts[i:i + chunk_size] for the chunk starting at index i (from 1)
Chunk(texts, i, chunk_size) ==
    SubSeq(texts, i, IF i + chunk_size - 1 < Len(texts)
                     THEN i + chunk_size - 1 ELSE Len(texts))

\* What one invoke_model attempt of _call_titan on a chunk can do: return n
\* embeddings, raise ClientError, or raise another exception (a missing
\* 'embedding' key, a transport error).  A one-text chunk returns
\* [response_body['embedding']]: always one element.
AttemptOutcomes(chunk) ==
    {[kind |-> "client_error", n |-> 0], [kind |-> "error", n |-> 0]}
    \cup {[kind |-> "ok", n |-> n] :
              n \in IF Len(chunk) = 1 THEN {1} ELSE 0..Len(chunk)}

\* _retry_with_backoff from attempt `attempt` on, outs[a + 1] being what the
\* call does on attempt a: a value is returned at once, ClientError is
\* re-raised on the last attempt and retried before, any other exception
\* leaves the loop at once; with no attempt left to make the loop ends and
\* None is returned.  First with a sleep of retry_delay before every retry:
RECURSIVE _retry_fixed_delay(_, _, _, _)
_retry_fixed_delay(outs, attempt, max_retries, retry_delay) ==
    IF attempt >= max_retries
    THEN [kind |-> "none", n |-> 0, attempts |-> attempt, waits |-> <<>>]
    ELSE LET o == outs[attempt + 1]
         IN  IF o.kind = "ok"
             THEN [kind |-> "value", n |-> o.n, attempts |-> attempt + 1, waits |-> <<>>]
             ELSE IF o.kind = "error" \/ attempt = max_retries - 1
             THEN [kind |-> "raise", n |-> 0, attempts |-> attempt + 1, waits |-> <<>>]
             ELSE LET rest == _retry_fixed_delay(outs, attempt + 1, max_retries,
                                                 retry_delay)
                  IN  [rest EXCEPT !.waits = <<retry_delay>> \o @]

\* the same with time.sleep(self.retry_delay * (2 ** attempt)); waits lists
\* the sleeps in order
RECURSIVE _retry_with_backoff(_, _, _, _)
_retry_with_backoff(outs, attempt, max_retries, retry_delay) ==
    IF attempt >= max_retries
    THEN [kind |-> "none", n |-> 0, attempts |-> attempt, waits |-> <<>>]
    ELSE LET o == outs[attempt + 1]
         IN  IF o.kind = "ok"
             THEN [kind |-> "value", n |-> o.n, attempts |-> attempt + 1, waits |-> <<>>]
             ELSE IF o.kind = "error" \/ attempt = max_retries - 1
             THEN [kind |-> "raise", n |-> 0, attempts |-> attempt + 1, waits |-> <<>>]
             ELSE LET rest == _retry_with_backoff(outs, attempt + 1, max_retries,
                                                  retry_delay)
                  IN  [rest EXCEPT !.waits = <<retry_delay * (2 ^ attempt)>> \o @]

\* the n embeddings a successful call returned for the chunk (the model keeps
\* the first n texts' vectors; an extra one repeats the last)
Returned_embeddings(chunk, n) ==
    [j \in 1..n |-> TextEmbedding(chunk[IF j <= Len(chunk) THEN j ELSE Len(chunk)])]

\* what a chunk adds to all_embeddings:
\*   try: chunk_embeddings = retry(...); if chunk_embeddings: extend
\*   except Exception: extend with one zero vector per text of the chunk
ChunkEmbeddings(chunk, res) ==
    IF res.kind = "raise" THEN [j \in 1..Len(chunk) |-> ZeroEmbedding]
    ELSE IF res.kind = "value" /\ res.n > 0 THEN Returned_embeddings(chunk, res.n)
    ELSE <<>>

\* every list titan_embed([text]) can return under the settings cfg
titan_embed_one(text, cfg) ==
    {ChunkEmbeddings(<<text>>,
                     _retry_with_backoff(outs, 0, cfg.max_retries, cfg.retry_delay)) :
        outs \in [1..cfg.max_retries -> AttemptOutcomes(<<text>>)]}

\* the same under the default settings, text by text
DefaultEmbeddings == [t \in Texts |-> titan_embed_one(t, DefaultSettings)]

\* every list titan_embed([text]) can return now
EmbeddingsOf(text) ==
    IF settings = DefaultSettings /\ text \in Texts THEN DefaultEmbeddings[text]
    ELSE titan_embed_one(text, settings)

\* ------------------------------------------------------------------ RelationStore
\* A node is identified by its label and its MERGE key: User {guid},
\* Entity {name, type}, Fact {key, guid}.  NoType is the missing type of an
\* Entity that upsert_triple created by name alone.
NoType == "-"
UserNode(g) == [label |-> "User", a |-> g, b |-> "-", val |-> "-", conf |-> 0]
EntityNode(n, t) == [label |-> "Entity", a |-> n, b |-> t, val |-> "-", conf |-> 0]
FactNode(k, g, v, c) == [label |-> "Fact", a |-> k, b |-> g, val |-> v, conf |-> c]
NodeId(n) == <<n.label, n.a, n.b>>
Edge(src, dst, rel, pred, c) ==
    [src |-> src, dst |-> dst, rel |-> rel, predicate |-> pred, conf |-> c]

Graph(nodes, edges) == [nodes |-> nodes, edges |-> edges]
HasNode(G, id) == \E n \in G.nodes : NodeId(n) = id

\* MERGE (u:User {guid: $guid})
MergeUser(G, g) ==
    IF HasNode(G, NodeId(UserNode(g))) THEN G
    ELSE Graph(G.nodes \cup {UserNode(g)}, G.edges)

\* MERGE (e:Entity {name: $name, type: $type})
MergeEntity(G, n, t) ==
    IF HasNode(G, NodeId(EntityNode(n, t))) THEN G
    ELSE Graph(G.nodes \cup {EntityNode(n, t)}, G.edges)

\* MERGE (f:Fact {key: $key, guid: $guid}) SET f.value = ..., f.confidence = ...
MergeFact(G, g, k, v, c) ==
    Graph({n \in G.nodes : NodeId(n) # NodeId(FactNode(k, g, v, c))}
              \cup {FactNode(k, g, v, c)},
          G.edges)

SameEdge(e, f) ==
    e.src = f.src /\ e.dst = f.dst /\ e.rel = f.rel /\ e.predicate = f.predicate

\* MERGE (x)-[r:REL {predicate}]->(y) SET r += props, for each new edge of es
MergeEdges(G, es) ==
    Graph(G.nodes, {e \in G.edges : \A f \in es : ~SameEdge(e, f)} \cup es)

\* MATCH (u:User {guid}) MATCH (f:Fact {key, guid}) MERGE (u)-[:HAS_FACT]->(f):
\* nothing happens when either node is missing
LinkFact(G, g, k) ==
    LET u == NodeId(UserNode(g))
        f == <<"Fact", k, g>>
    IN  IF HasNode(G, u) /\ HasNode(G, f)
        THEN MergeEdges(G, {Edge(u, f, "HAS_FACT", "-", 0)})
        ELSE G

EntitiesNamed(G, n) == {NodeId(x) : x \in {y \in G.nodes : y.label = "Entity" /\ y.a = n}}

\* MERGE (s:Entity {name: $subject}): every Entity of that name, or a new one
\* without a type
MergeEntityByName(G, n) ==
    IF EntitiesNamed(G, n) # {} THEN G
    ELSE Graph(G.nodes \cup {EntityNode(n, NoType)}, G.edges)

\* upsert_triple's one statement: MERGE s, MERGE o, MERGE the relationship
\* between every matched pair, SET r += props
MergeTriple(G, s, p, o, c) ==
    LET G2 == MergeEntityByName(MergeEntityByName(G, s), o)
    IN  MergeEdges(G2, {Edge(x, y, "RELATES_TO", p, c) :
                           x \in EntitiesNamed(G2, s), y \in EntitiesNamed(G2, o)})

\* how far a store method got before an exception, if any
\* upsert_fact_rel runs two statements, each committed on its own
upsert_fact_rel_graph(G, g, k, v, c, done) ==
    IF done = 0 THEN G
    ELSE IF done = 1 THEN MergeFact(G, g, k, v, c)
    ELSE LinkFact(MergeFact(G, g, k, v, c), g, k)

\* the sentinel of shortest_path_len
UnreachableLen == 99

Neighbours(edges, S) ==
    {e.dst : e \in {f \in edges : f.src \in S}}
    \cup {e.src : e \in {f \in edges : f.dst \in S}}

\* length of a shortest undirected path from the frontier to target, d being
\* the frontier's distance; UnreachableLen stands for "no path" here
RECURSIVE PathLen(_, _, _, _, _)
PathLen(edges, frontier, seen, target, d) ==
    IF target \in frontier THEN d
    ELSE LET nxt == Neighbours(edges, frontier) \ seen
         IN  IF nxt = {} THEN UnreachableLen
             ELSE PathLen(edges, nxt, seen \cup nxt, target, d + 1)

\* the rows of  MATCH (u:User {guid}) MATCH (t:Entity {name: $topic})
\*              MATCH path = shortestPath((u)-[*]-(t)) RETURN length(path)
PathRows(G, g, topic) ==
    IF ~HasNode(G, NodeId(UserNode(g))) THEN {}
    ELSE {len \in {PathLen(G.edges, {NodeId(UserNode(g))}, {NodeId(UserNode(g))}, t, 0) :
                      t \in EntitiesNamed(G, topic)} : len # UnreachableLen}

\* a store whose failed query reports length 0
shortest_path_len_zero_on_error(G, g, topic, ok) ==
    IF ~ok THEN {0}
    ELSE IF PathRows(G, g, topic) = {} THEN {UnreachableLen}
    ELSE PathRows(G, g, topic)

\* shortest_path_len: result = run(...).single(); the first row's length, 99
\* without a row, 99 on any exception.  The set of values it may return.
shortest_path_len(G, g, topic, ok) ==
    IF ~ok THEN {UnreachableLen}
    ELSE IF PathRows(G, g, topic) = {} THEN {UnreachableLen}
    ELSE PathRows(G, g, topic)

\* a rational number num/den, den > 0
Rat(n, d) == [num |-> n, den |-> d]

\* 1.0 / (1.0 + path_len) if path_len < 99 else 0.0
graph_proximity_of_len(path_len) ==
    IF path_len < UnreachableLen THEN Rat(1, 1 + path_len) ELSE Rat(0, 1)

\* get_graph_store(): the module-level store is built on first use; building
\* it (driver, init_constraints) raises when Neo4j cannot be reached, and the
\* global then stays None.  up says whether Neo4j answers.
get_graph_store_raises(store, up) == store = "None" /\ ~up
get_graph_store_after(store, up) == IF store = "None" /\ ~up THEN "None" ELSE "ready"

CurrentGraph == Graph(gNodes, gEdges)

\* a graph-store method reached through get_graph_store(): newG is the graph
\* the method leaves when the store could be obtained
GraphCall(newG, up) ==
    /\ graph_store' = get_graph_store_after(graph_store, up)
    /\ gNodes' = (IF get_graph_store_raises(graph_store, up) THEN gNodes ELSE newG.nodes)
    /\ gEdges' = (IF get_graph_store_raises(graph_store, up) THEN gEdges ELSE newG.edges)

\* graph_proximity_score: any exception (get_graph_store's) gives 0.0
graph_proximity_score(G, store, up, g, topic, ok) ==
    IF get_graph_store_raises(store, up) THEN {Rat(0, 1)}
    ELSE {graph_proximity_of_len(len) : len \in shortest_path_len(G, g, topic, ok)}

\* ------------------------------------------------------------------ EpisodeStore
\* a document of the collection: id "<guid>_<uuid>", the text, its embedding,
\* and the metadata {guid, timestamp: datetime.now(), channel, ts, importance}
Episode(id, g, text, emb, timestamp, importance, channel, ts) ==
    [id |-> id, guid |-> g, text |-> text, embedding |-> emb,
     timestamp |-> timestamp, importance |-> importance, channel |-> channel,
     ts |-> ts]

\* an upsert under one id per owner: the owner's earlier episode is replaced
upsert_episode_merged(g, text, importance, channel, ts, emb, ok) ==
    IF ok
    THEN /\ episodes' = {e \in episodes : e.guid # g} \cup
                {Episode(<<g, nextId>>, g, text, emb, now, importance, channel, ts)}
         /\ nextId' = nextId + 1
    ELSE UNCHANGED <<episodes, nextId>>

\* upsert_episode: a fresh id, collection.upsert; False and no change on an
\* exception
upsert_episode(g, text, importance, channel, ts, emb, ok) ==
    IF ok
    THEN /\ episodes' = episodes \cup
                {Episode(<<g, nextId>>, g, text, emb, now, importance, channel, ts)}
         /\ nextId' = nextId + 1
    ELSE UNCHANGED <<episodes, nextId>>

\* collection.delete(ids=ids)
delete_by_ids(ids, ok) ==
    /\ episodes' = (IF ok THEN {e \in episodes : e.id \notin ids} ELSE episodes)
    /\ UNCHANGED nextId

\* Chroma's default distance: squared L2
Distance(q, e) == (q[1] - e[1]) * (q[1] - e[1]) + (q[2] - e[2]) * (q[2] - e[2])

\* where = {"guid": guid} plus, `if since_days:`, timestamp >= now - since_days
\* (since_days 0 stands for None and for 0: no time filter)
MatchesWhere(e, g, since_days, today) ==
    /\ e.guid = g
    /\ since_days # 0 => e.timestamp >= today - since_days

Min(a, b) == IF a < b THEN a ELSE b

\* the lists collection.query may return: the n_results nearest matching
\* documents, nearest first, ties in any order
NearestLists(eps, qvec, g, k, since_days, today) ==
    LET M == {e \in eps : MatchesWhere(e, g, since_days, today)}
    IN  UNION {{sq \in Orderings(T) :
                   \A i, j \in 1..Len(sq) :
                       i < j => Distance(qvec, sq[i].embedding)
                                    <= Distance(qvec, sq[j].embedding)} :
               T \in {U \in SUBSET M :
                         /\ Cardinality(U) = Min(k, Cardinality(M))
                         /\ \A x \in M \ U, y \in U :
                                Distance(qvec, y.embedding)
                                    <= Distance(qvec, x.embedding)}}

\* the dict query_similar builds per hit: id, text, metadata (timestamp and
\* importance as stored; no episode is stored with a priority), distance and
\* similarity = 1 - distance; the embedding is not among its keys
EpisodeHit(e, qvec) ==
    [id |-> e.id, text |-> e.text, timestamp |-> Num(e.timestamp),
     importance |-> Num(e.importance), priority |-> "absent",
     distance |-> Distance(qvec, e.embedding),
     similarity |-> 1 - Distance(qvec, e.embedding), has_embedding |-> FALSE,
     embedding |-> <<>>]

\* query_similar: [] when titan_embed gave nothing or on any exception, else
\* the formatted hits.  query_embeddings are the lists titan_embed([query])
\* may give; the result is the set of lists query_similar may return.
query_similar(eps, g, query_embeddings, k, since_days, today, ok) ==
    IF ~ok THEN {<<>>}
    ELSE UNION {IF qe = <<>> THEN {<<>>}
                ELSE {[i \in 1..Len(sq) |-> EpisodeHit(sq[i], qe[1])] :
                         sq \in NearestLists(eps, qe[1], g, k, since_days, today)} :
                qe \in query_embeddings}

\* ------------------------------------------------------------------ Retriever
\* Scores are counted in units of 1/ScoreUnit (a float in the code); the
\* weights of calculate_score are percents, so a fused score is counted in
\* units of 1/(100 * ScoreUnit).
ScoreUnit == 3000

Dot(a, b) == a[1] * b[1] + a[2] * b[2]

\* np.linalg.norm, for the vectors of this model (their norms are whole)
Norm(a) == CHOOSE n \in 0..Dot(a, a) : n * n = Dot(a, a)

\* cosine_similarity: np.dot / (norm * norm); np.dot raises on lists of
\* different lengths and the except gives 0.0; a zero norm divides 0.0 by
\* 0.0, which numpy answers with nan
cosine_similarity(a, b) ==
    IF Len(a) # Len(b) THEN [nan |-> FALSE, v |-> 0]
    ELSE IF Len(a) = 0 \/ Norm(a) * Norm(b) = 0 THEN [nan |-> TRUE, v |-> 0]
    ELSE [nan |-> FALSE, v |-> (Dot(a, b) * ScoreUnit) \div (Norm(a) * Norm(b))]

\* exp(-d / 7) for an age of d days, by exp(-1/7) = 0.8669 per day
RECURSIVE Decay(_)
Decay(d) == IF d <= 0 THEN ScoreUnit ELSE (Decay(d - 1) * 8669) \div 10000

\* recency_score(ts): 0.0 for a missing or empty timestamp and, through the
\* bare except, for one that does not parse; else the decay of its age
recency_score(timestamp, today) ==
    IF timestamp.t = "num" THEN Decay(today - timestamp.v) ELSE 0

\* JSON null / Python None as the value of a field
Null == [t |-> "null", v |-> 0]

\* priority_scores.get(priority, 0.5) with metadata.get("priority", "medium"),
\* in tenths
PriorityScore(priority) ==
    CASE priority = "high" -> 10
      [] priority = "low" -> 2
      [] OTHER -> 5

\* importance_score: metadata.get("importance", 0.5) times the priority
\* score, outside any try: None or a string times a float raises TypeError
importance_score(importance, priority) ==
    IF importance.t = "num"
    THEN [raised |-> FALSE, v |-> (importance.v * PriorityScore(priority) * ScoreUnit) \div 100]
    ELSE IF importance.t = "absent"
    THEN [raised |-> FALSE, v |-> (5 * PriorityScore(priority) * ScoreUnit) \div 100]
    ELSE [raised |-> TRUE, v |-> 0]

\* a rational in score units
Units(r) == (r.num * ScoreUnit) \div r.den

Max(a, b) == IF a > b THEN a ELSE b

\* graph_score = max(graph_score, graph_proximity_score(guid, token)) over
\* the tokens, prox[token] being what the lookup for the token gave
RECURSIVE GraphTerm(_, _, _)
GraphTerm(tokens, prox, i) ==
    IF i > Len(tokens) THEN 0
    ELSE Max(Units(prox[tokens[i]]), GraphTerm(tokens, prox, i + 1))

\* calculate_score: episode.get("embedding", []) decides whether the
\* similarity is computed at all (a missing or empty one is falsy); the four
\* terms and the weighted sum.  raised: importance_score raised, and the
\* exception leaves calculate_score; nan: the sum is nan.
calculate_score(hit, query_embedding, tokens, prox, today) ==
    LET sim == IF hit.has_embedding /\ hit.embedding # <<>>
               THEN cosine_similarity(query_embedding, hit.embedding)
               ELSE [nan |-> FALSE, v |-> 0]
        rec == recency_score(hit.timestamp, today)
        imp == importance_score(hit.importance, hit.priority)
        gra == GraphTerm(tokens, prox, 1)
    IN  [hit |-> hit, raised |-> imp.raised, nan |-> sim.nan /\ ~imp.raised,
         sim |-> sim.v, recency |-> rec,
         importance |-> imp.v, graph |-> gra,
         score |-> 55 * sim.v + 20 * rec + 15 * imp.v + 10 * gra]

\* an insertion that puts x before the elements of equal score
RECURSIVE InsertBeforeEqual(_, _)
InsertBeforeEqual(sq, x) ==
    IF sq = <<>> THEN <<x>>
    ELSE IF Head(sq).score > x.score THEN <<Head(sq)>> \o InsertBeforeEqual(Tail(sq), x)
    ELSE <<x>> \o sq

\* list.sort(key=score, reverse=True): stable, highest score first
RECURSIVE InsertByScore(_, _)
InsertByScore(sq, x) ==
    IF sq = <<>> THEN <<x>>
    ELSE IF Head(sq).score >= x.score THEN <<Head(sq)>> \o InsertByScore(Tail(sq), x)
    ELSE <<x>> \o sq

RECURSIVE SortByScore(_)
SortByScore(sq) ==
    IF sq = <<>> THEN <<>>
    ELSE InsertByScore(SortByScore(SubSeq(sq, 1, Len(sq) - 1)), sq[Len(sq)])

\* seq[:n]
Prefix(sq, n) == SubSeq(sq, 1, Min(n, Len(sq)))

\* ------------------------------------------------------------------ RelationStore: find_paths
\* the bound of  MATCH path = (u)-[*1..5]-(t)
MaxHops == 5

OtherEnd(e, at) == IF e.src = at THEN e.dst ELSE e.src

\* the paths of at most `left` more relationships from `at` to a target, no
\* relationship used twice; used is the path so far
RECURSIVE Trails(_, _, _, _, _)
Trails(edges, at, targets, used, left) ==
    (IF at \in targets /\ used # <<>> THEN {used} ELSE {})
    \cup (IF left = 0 THEN {}
          ELSE UNION {Trails(edges, OtherEnd(e, at), targets, Append(used, e), left - 1) :
                         e \in {f \in edges :
                                   /\ f.src = at \/ f.dst = at
                                   /\ \A i \in 1..Len(used) : used[i] # f}})

\* ORDER BY path_length: the lengths of the paths of P, shortest first
RECURSIVE LengthsAscending(_)
LengthsAscending(P) ==
    IF P = {} THEN <<>>
    ELSE LET p == CHOOSE x \in P : \A y \in P : Len(x) <= Len(y)
         IN  <<Len(p)>> \o LengthsAscending(P \ {p})

\* find_paths(guid, topic, k): one dict per row (its length is kept here), up
\* to k rows; [] on any exception
find_paths(G, g, topic, k, ok) ==
    IF ~ok \/ ~HasNode(G, NodeId(UserNode(g))) THEN <<>>
    ELSE LET lens == LengthsAscending(Trails(G.edges, NodeId(UserNode(g)),
                                             EntitiesNamed(G, topic), <<>>, MaxHops))
         IN  [i \in 1..Min(k, Len(lens)) |-> [kind |-> "path", length |-> lens[i], n |-> 0]]

\* ------------------------------------------------------------------ RelationStore: get_subgraph
\* the bound of  MATCH (u:User {guid: $guid})-[r*1..3]-(n)
SubgraphHops == 3

\* get_subgraph(guid) without since_days: the distinct nodes at the end of a
\* path of one to three relationships from the anchor, with their
\* properties; [] on any exception
get_subgraph(G, g, ok) ==
    IF ~ok \/ ~HasNode(G, NodeId(UserNode(g))) THEN {}
    ELSE {n \in G.nodes :
             Trails(G.edges, NodeId(UserNode(g)), {NodeId(n)}, <<>>, SubgraphHops) # {}}

\* ------------------------------------------------------------------ write_memory
\* A write_memory call in progress: the request, the extraction, the loop the
\* call is in (pc) and its index i, the envelope returned (ret), and calls,
\* the store operations the call has issued so far.
Writers == {"w1", "w2"}

\* an exception that reaches no handler of the method
NoExcept(raised) == IF raised THEN "escaped" ELSE "success"

\* try: ... return {"success": True, ...}
\* except Exception as e: return {"success": False, "error": str(e)}
ExceptException(raised) == IF raised THEN "failure" ELSE "success"

\* every field read as data.get(field, default)
DefaultedFields(req, required) == {}

\* the fields read as data[field] that the request lacks (KeyError)
MissingFields(req, required) == required \ DOMAIN req

\* data.get(field, default)
Field(req, field, default) == IF field \in DOMAIN req THEN req[field] ELSE default

\* guid = data["guid"]; text = data["text"]; channel = data["channel"];
\* ts = data["ts"]
WriteRequired == {"guid", "text", "channel", "ts"}

\* lacks: the required fields the request of the call did not have;
\* extracted: extract_all was called; embed_failed: the gateway call for the
\* episode text raised inside titan_embed
IdleWriter ==
    [pc |-> "idle", guid |-> "-", text |-> "-", channel |-> "-", ts |-> 0,
     r1 |-> "-", r2 |-> "-", ext |-> ExtractionRaised, i |-> 0, ret |-> "none",
     calls |-> <<>>, lacks |-> {}, extracted |-> FALSE, embed_failed |-> FALSE]

\* one issued store operation: its name, its main argument, the confidence or
\* importance it carries (tenths), and whether it succeeded
Call(op, arg, level, ok) == [op |-> op, arg |-> arg, level |-> level, ok |-> ok]

\* the steps with the owner anchor written last
StagesAnchorLast == <<"facts", "episode", "entities", "fact_rels", "triples", "user">>

\* the steps of write_memory after extraction, in program order
Stages == <<"facts", "episode", "user", "entities", "fact_rels", "triples">>
StageIndex(st) == CHOOSE j \in 1..Len(Stages) : Stages[j] = st

\* how many times the body of a step runs
Iterations(st, ext) ==
    CASE st = "facts" -> Len(ext.facts)
      [] st = "episode" -> 1
      [] st = "user" -> 1
      [] st = "entities" -> Len(ext.entities)
      [] st = "fact_rels" -> Len(ext.facts)
      [] st = "triples" -> Len(ext.triples)

\* the first step from the j-th on that has something to do
RECURSIVE StageFrom(_, _)
StageFrom(j, ext) ==
    IF j > Len(Stages) THEN "returned"
    ELSE IF Iterations(Stages[j], ext) > 0 THEN Stages[j]
    ELSE StageFrom(j + 1, ext)

\* the call after one more store operation: the next iteration, the next
\* step, or `return {"success": True}`
Proceed(rec, entries) ==
    LET more == rec.i < Iterations(rec.pc, rec.ext)
        nxt == IF more THEN rec.pc ELSE StageFrom(StageIndex(rec.pc) + 1, rec.ext)
    IN  [rec EXCEPT !.calls = @ \o entries,
                    !.pc = nxt,
                    !.i = IF more THEN @ + 1 ELSE 1,
                    !.ret = IF nxt = "returned" THEN ExceptException(FALSE) ELSE @]

\* except Exception as e: return {"success": False, "error": str(e)}
Fail(rec, entries) ==
    [rec EXCEPT !.calls = @ \o entries, !.pc = "returned",
                !.ret = ExceptException(TRUE)]

\* episodes[0]["summary"] if episodes else text
EpisodeText(rec) ==
    IF rec.ext.episodes # <<>> THEN rec.ext.episodes[1].summary ELSE rec.text

\* the default importance of write_memory, in tenths
DefaultImportance == 5

\* episodes[0].get("importance", 0.5) if episodes else 0.5
EpisodeImportance(rec) ==
    IF rec.ext.episodes # <<>> /\ rec.ext.episodes[1].confidence.t = "num"
    THEN rec.ext.episodes[1].confidence.v
    ELSE DefaultImportance

\* MemoryExtractor.__init__ reads the threshold once, from the settings
confidence_threshold == DefaultSettings.default_confidence_threshold

\* what a pair of reasoning outputs makes extract_all give
ExtractionOf(r1, r2) ==
    [r1 |-> r1.kind, r2 |-> r2.kind, ext |-> extract_all(r1, r2, confidence_threshold)]

\* data["guid"], ..., then extract_all (x is what the two reasoning calls
\* of this call led to); a missing field or an exception of extract_all
\* returns the failure envelope.  A caller makes one call.
WriteBegin(w, reqs, extractions) ==
    /\ wr[w].pc = "idle"
    /\ \E req \in reqs :
         LET rec == [IdleWriter EXCEPT !.guid = Field(req, "guid", "-"),
                                       !.text = Field(req, "text", "-"),
                                       !.channel = Field(req, "channel", "-"),
                                       !.ts = Field(req, "ts", 0),
                                       !.lacks = WriteRequired \ DOMAIN req]
         IN  IF MissingFields(req, WriteRequired) # {}
             THEN wr' = [wr EXCEPT ![w] = Fail(rec, <<>>)]
             ELSE \E x \in extractions :
                    LET called == [rec EXCEPT !.r1 = x.r1, !.r2 = x.r2, !.ext = x.ext,
                                              !.i = 1, !.extracted = TRUE]
                    IN  wr' = [wr EXCEPT ![w] =
                                  IF x.ext.raised THEN Fail(called, <<>>)
                                  ELSE [called EXCEPT !.pc = StageFrom(1, x.ext)]]
    /\ UNCHANGED <<kvVars, epVars, graphVars, now, settings, scoreIO, ioVars>>

\* for fact in extracted["facts"]: kv_store.upsert_fact(...)
WriteFact(w) ==
    /\ wr[w].pc = "facts"
    /\ LET f == wr[w].ext.facts[wr[w].i]
       IN  \E ok \in BOOLEAN :
             /\ upsert_fact(wr[w].guid, f.key, f.value, f.confidence.v,
                            wr[w].channel, wr[w].ts, ok)
             /\ wr' = [wr EXCEPT ![w] =
                          Proceed(@, <<Call("upsert_fact", f.key, f.confidence.v, ok)>>)]
    /\ UNCHANGED <<kvRet, epVars, graphVars, now, settings, scoreIO, ioVars>>

\* embeddings = titan_embed([episode_text]); if embeddings: upsert_episode(...)
\* titan_embed gives the zero vector for the text exactly when its gateway
\* call raised.
WriteEpisode(w) ==
    /\ wr[w].pc = "episode"
    /\ \E embs \in EmbeddingsOf(EpisodeText(wr[w])) :
         IF embs = <<>>
         THEN /\ wr' = [wr EXCEPT ![w] = Proceed(@, <<>>)]
              /\ UNCHANGED epVars
         ELSE \E ok \in BOOLEAN :
                /\ upsert_episode(wr[w].guid, EpisodeText(wr[w]),
                                  EpisodeImportance(wr[w]), wr[w].channel,
                                  wr[w].ts, embs[1], ok)
                /\ wr' = [wr EXCEPT ![w] =
                             Proceed([@ EXCEPT !.embed_failed = (embs[1] = ZeroEmbedding)],
                                     <<Call("upsert_episode", EpisodeText(wr[w]),
                                            EpisodeImportance(wr[w]), ok)>>)]
    /\ UNCHANGED <<kvVars, graphVars, now, settings, scoreIO, ioVars>>

\* whether Neo4j answers matters only while the store is not built yet
Reachability == IF graph_store = "None" THEN BOOLEAN ELSE {TRUE}

\* one statement of the form get_graph_store().method(...): get_graph_store
\* raising ends the call with the failure envelope; otherwise the method
\* leaves newG and the operation is logged
WriteGraphOp(w, up, newG, entry) ==
    /\ GraphCall(newG, up)
    /\ wr' = [wr EXCEPT ![w] =
                 IF get_graph_store_raises(graph_store, up)
                 THEN Fail(@, <<Call("get_graph_store", "-", 0, FALSE)>>)
                 ELSE Proceed(@, <<entry>>)]

\* get_graph_store().upsert_user(guid)
WriteUser(w) ==
    /\ wr[w].pc = "user"
    /\ \E up \in Reachability, ok \in BOOLEAN :
         WriteGraphOp(w, up,
                      IF ok THEN MergeUser(CurrentGraph, wr[w].guid) ELSE CurrentGraph,
                      Call("upsert_user", wr[w].guid, 0, ok))
    /\ UNCHANGED <<kvVars, epVars, now, settings, scoreIO, ioVars>>

\* for entity in extracted["entities"]: get_graph_store().upsert_entity(...)
WriteEntity(w) ==
    /\ wr[w].pc = "entities"
    /\ LET e == wr[w].ext.entities[wr[w].i]
       IN  \E up \in Reachability, ok \in BOOLEAN :
             WriteGraphOp(w, up,
                          IF ok THEN MergeEntity(CurrentGraph, e.name, e.type)
                          ELSE CurrentGraph,
                          Call("upsert_entity", e.name, GetOrZero(e.confidence), ok))
    /\ UNCHANGED <<kvVars, epVars, now, settings, scoreIO, ioVars>>

\* for fact in extracted["facts"]: get_graph_store().upsert_fact_rel(...)
WriteFactRel(w) ==
    /\ wr[w].pc = "fact_rels"
    /\ LET f == wr[w].ext.facts[wr[w].i]
       IN  \E up \in Reachability, done \in 0..2 :
             WriteGraphOp(w, up,
                          upsert_fact_rel_graph(CurrentGraph, wr[w].guid, f.key,
                                                f.value, f.confidence.v, done),
                          Call("upsert_fact_rel", f.key, f.confidence.v, done = 2))
    /\ UNCHANGED <<kvVars, epVars, now, settings, scoreIO, ioVars>>

\* for triple in extracted["triples"]: get_graph_store().upsert_triple(...)
WriteTriple(w) ==
    /\ wr[w].pc = "triples"
    /\ LET t == wr[w].ext.triples[wr[w].i]
       IN  \E up \in Reachability, ok \in BOOLEAN :
             WriteGraphOp(w, up,
                          IF ok THEN MergeTriple(CurrentGraph, t.subject, t.predicate,
                                                 t.object, t.confidence.v)
                          ELSE CurrentGraph,
                          Call("upsert_triple", t.subject, t.confidence.v, ok))
    /\ UNCHANGED <<kvVars, epVars, now, settings, scoreIO, ioVars>>

\* ------------------------------------------------------------------ initial values
InitKv ==
    /\ facts = {}
    /\ lastUpsert = [p \in Owners \X Keys |-> NoValue]
    /\ kvRet = [op |-> "none", ok |-> FALSE, replaced |-> FALSE]

InitEp == episodes = {} /\ nextId = 1

InitGraph == gNodes = {} /\ gEdges = {} /\ graph_store = "None"

InitWr == wr = [w \in Writers |-> IdleWriter]

NoIO == [state |-> "unused"]

InitRest ==
    /\ now = 0
    /\ settings = DefaultSettings

\* ------------------------------------------------------------------ FactStore alone
InitFacts ==
    /\ InitKv /\ InitEp /\ InitGraph /\ InitWr /\ InitRest
    /\ extractIO = NoIO /\ embedIO = NoIO /\ pathIO = NoIO
    /\ searchIO = NoIO /\ forgetIO = NoIO /\ queryIO = NoIO
    /\ summarizeIO = NoIO /\ scoreIO = NoIO

StoreUpsert ==
    \E g \in Owners, k \in Keys, v \in Values, ts \in TsValues, ok \in BOOLEAN :
        /\ upsert_fact(g, k, v, 9, "email", ts, ok)
        /\ kvRet' = [op |-> "upsert_fact", ok |-> ok,
                     replaced |-> ok /\ \E r \in RowsOf(facts, g, k) : r.value # v]
        /\ UNCHANGED <<epVars, graphVars, now, settings, scoreIO, wr, ioVars>>

StoreDelete ==
    \E g \in Owners, k \in Keys, ok \in BOOLEAN :
        /\ delete_fact(g, k, ok)
        /\ kvRet' = [op |-> "delete_fact", ok |-> delete_fact_returns(facts, g, k, ok),
                     replaced |-> FALSE]
        /\ UNCHANGED <<epVars, graphVars, now, settings, scoreIO, wr, ioVars>>

NextFacts == StoreUpsert \/ StoreDelete

\* the FactStore driven directly by upsert_fact and delete_fact calls
SpecFacts == InitFacts /\ [][NextFacts]_vars

\* ------------------------------------------------------------------ extract_all alone
\* the reasoning outputs tried: every non-object, and objects of up to
\* MaxListed items per list
MaxListed == 2

ConfFields == {Absent, NonNumber} \cup {Num(c) : c \in ConfValues}
FactItems == [key : {"k1"}, value : {"v1"}, confidence : ConfFields]
EpisodeItems == [summary : {"s1"}, confidence : ConfFields]
EntityItems ==
    [name : {"e1"}, type : {"Person", "Animal"}, confidence : {Absent, Num(3), Num(9)}]
TripleItems ==
    [subject : {"e1"}, predicate : {"PREFERS", "LIKES"}, object : {"e2"},
     confidence : {Absent, NonNumber, Num(3), Num(9)}]

StructuredResponses ==
    NonObjectResponses \cup
    ObjectResponses("facts", FactItems, MaxListed, "episodes", EpisodeItems, 1)
TriplesResponses ==
    NonObjectResponses \cup
    ObjectResponses("entities", EntityItems, 1, "triples", TripleItems, 1)

InitExtract ==
    /\ InitKv /\ InitEp /\ InitGraph /\ InitWr /\ InitRest
    /\ embedIO = NoIO /\ pathIO = NoIO /\ searchIO = NoIO /\ forgetIO = NoIO /\ queryIO = NoIO
    /\ summarizeIO = NoIO /\ scoreIO = NoIO
    /\ \E r1 \in StructuredResponses, r2 \in TriplesResponses :
          extractIO = [state |-> "called", r1 |-> r1, r2 |-> r2]

ExtractAll ==
    /\ extractIO.state = "called"
    /\ extractIO' = [state |-> "returned", r1 |-> extractIO.r1, r2 |-> extractIO.r2,
                     out |-> extract_all(extractIO.r1, extractIO.r2,
                                         confidence_threshold)]
    /\ UNCHANGED <<kvVars, epVars, graphVars, now, settings, scoreIO, wr, searchIO,
                   embedIO, pathIO, forgetIO, queryIO,
                   summarizeIO>>

NextExtract == ExtractAll

\* extract_all applied to each pair of reasoning outputs
SpecExtract == InitExtract /\ [][NextExtract]_vars

\* ------------------------------------------------------------------ titan_embed alone
\* the input lists tried have up to MaxTexts texts; the retry counts tried go
\* up to MaxRetriesTried; the chunk sizes tried are ChunkSizesTried.  embedIO
\* keeps, of the last chunk, what each attempt did (outs), the number of
\* attempts made, the sleeps and how _retry_with_backoff ended (kind).
MaxTexts == 3
MaxRetriesTried == 3
RetryDelaysTried == {1, 2}
ChunkSizesTried == {1, 2, DefaultSettings.max_embedding_chunk_size}

InitEmbed ==
    /\ InitKv /\ InitEp /\ InitGraph /\ InitWr /\ now = 0
    /\ extractIO = NoIO /\ pathIO = NoIO /\ searchIO = NoIO /\ forgetIO = NoIO /\ queryIO = NoIO
    /\ summarizeIO = NoIO /\ scoreIO = NoIO
    /\ \E cs \in ChunkSizesTried, mr \in 0..MaxRetriesTried, rd \in RetryDelaysTried :
          settings = [DefaultSettings EXCEPT !.max_embedding_chunk_size = cs,
                                             !.max_retries = mr,
                                             !.retry_delay = rd]
    /\ \E texts \in SeqsUpTo({"t1", "t2"}, MaxTexts) :
          embedIO = [state |-> "called", texts |-> texts, i |-> 1,
                     all_embeddings |-> <<>>, attempts |-> 0,
                     outs |-> <<>>, waits |-> <<>>, kind |-> "-"]

\* titan_embed, one chunk of the for loop per step; the loop is not entered
\* for an empty list
EmbedChunk ==
    /\ embedIO.state = "called"
    /\ embedIO.i <= Len(embedIO.texts)
    /\ LET chunk == Chunk(embedIO.texts, embedIO.i, settings.max_embedding_chunk_size)
       IN  \E outs \in [1..settings.max_retries -> AttemptOutcomes(chunk)] :
             LET res == _retry_with_backoff(outs, 0, settings.max_retries,
                                            settings.retry_delay)
             IN  embedIO' = [embedIO EXCEPT
                     !.i = @ + settings.max_embedding_chunk_size,
                     !.all_embeddings = @ \o ChunkEmbeddings(chunk, res),
                     !.attempts = res.attempts,
                     !.outs = outs, !.waits = res.waits, !.kind = res.kind]
    /\ UNCHANGED <<kvVars, epVars, graphVars, now, settings, scoreIO, wr, extractIO,
                   pathIO, searchIO, forgetIO, queryIO,
                   summarizeIO>>

EmbedReturn ==
    /\ embedIO.state = "called"
    /\ embedIO.i > Len(embedIO.texts)
    /\ embedIO' = [embedIO EXCEPT !.state = "returned"]
    /\ UNCHANGED <<kvVars, epVars, graphVars, now, settings, scoreIO, wr, extractIO,
                   pathIO, searchIO, forgetIO, queryIO,
                   summarizeIO>>

NextEmbed == EmbedChunk \/ EmbedReturn

\* titan_embed applied to each input list under each configuration
SpecEmbed == InitEmbed /\ [][NextEmbed]_vars

\* ------------------------------------------------------------------ RelationStore alone
\* The database outlives the process and is shared: at start-up it is empty,
\* or it already links the owner u1 to the entity e1 (written by another
\* client of the same database).
SeededGraph ==
    Graph({UserNode("u1"), EntityNode("e1", "Person")},
          {Edge(NodeId(UserNode("u1")), NodeId(EntityNode("e1", "Person")),
                "LINKED", "-", 0)})

InitGraphAlone ==
    /\ InitKv /\ InitEp /\ InitWr /\ InitRest
    /\ extractIO = NoIO /\ embedIO = NoIO /\ searchIO = NoIO /\ forgetIO = NoIO /\ queryIO = NoIO
    /\ summarizeIO = NoIO /\ scoreIO = NoIO
    /\ pathIO = NoIO
    /\ graph_store = "None"
    /\ \E G \in {Graph({}, {}), SeededGraph} : gNodes = G.nodes /\ gEdges = G.edges

GUpsertUser ==
    \E g \in Owners, up \in BOOLEAN, ok \in BOOLEAN :
        /\ GraphCall(IF ok THEN MergeUser(CurrentGraph, g) ELSE CurrentGraph, up)
        /\ UNCHANGED <<kvVars, epVars, now, settings, scoreIO, wr, ioVars>>

\* the entity names written directly: two that differ in letter case only,
\* and a third
GraphEntityNames == {"e1", "E1", "e2"}

GUpsertEntity ==
    \E n \in GraphEntityNames, up \in BOOLEAN, ok \in BOOLEAN :
        /\ GraphCall(IF ok THEN MergeEntity(CurrentGraph, n, "Person")
                     ELSE CurrentGraph, up)
        /\ UNCHANGED <<kvVars, epVars, now, settings, scoreIO, wr, ioVars>>

GUpsertFactRel ==
    \E g \in Owners, up \in BOOLEAN, done \in 0..2 :
        /\ GraphCall(upsert_fact_rel_graph(CurrentGraph, g, "k1", "v1", 9, done), up)
        /\ UNCHANGED <<kvVars, epVars, now, settings, scoreIO, wr, ioVars>>

GUpsertTriple ==
    \E t \in {<<"e1", "e2">>, <<"e2", "e3">>}, up \in BOOLEAN, ok \in BOOLEAN :
        /\ GraphCall(IF ok THEN MergeTriple(CurrentGraph, t[1], "PREFERS", t[2], 9)
                     ELSE CurrentGraph, up)
        /\ UNCHANGED <<kvVars, epVars, now, settings, scoreIO, wr, ioVars>>

\* graph_proximity_score(guid, topic), with the shortest_path_len call in it
GProximityScore ==
    \E g \in Owners, topic \in {"e1", "e2", "e3"}, up \in BOOLEAN, ok \in BOOLEAN :
        /\ graph_store' = get_graph_store_after(graph_store, up)
        /\ \E len \in shortest_path_len(CurrentGraph, g, topic, ok) :
             pathIO' = [state |-> "returned", guid |-> g, topic |-> topic,
                        store_raised |-> get_graph_store_raises(graph_store, up),
                        query_failed |-> ~ok,
                        path_len |-> len,
                        score |-> IF get_graph_store_raises(graph_store, up)
                                  THEN Rat(0, 1) ELSE graph_proximity_of_len(len)]
        /\ UNCHANGED <<kvVars, epVars, gNodes, gEdges, now, settings, scoreIO, wr,
                       extractIO, embedIO, searchIO, forgetIO, queryIO,
                   summarizeIO>>

NextGraph ==
    GUpsertUser \/ GUpsertEntity \/ GUpsertFactRel \/ GUpsertTriple \/ GProximityScore

\* the relation store driven directly by its methods and the proximity score
SpecGraph == InitGraphAlone /\ [][NextGraph]_vars

\* ------------------------------------------------------------------ write_memory, one caller
\* a complete request, and the requests that lack the owner identifier, the
\* text, or both
WriteRequests ==
    {[guid |-> "u1", text |-> "t1", channel |-> "email", ts |-> 1],
     [text |-> "t1", channel |-> "email", ts |-> 1],
     [guid |-> "u1", channel |-> "email", ts |-> 1],
     [channel |-> "email", ts |-> 1]}

\* the reasoning outputs tried in a write: every non-object, and objects
\* listing up to two facts, one episode, one entity and one triple
WriteFactItems == [key : {"k1", "k2"}, value : {"v1"}, confidence : {Num(3), Num(9)}]
WriteEpisodeItems == [summary : {"s1"}, confidence : {Num(3), Num(9)}]
WriteEntityItems ==
    [name : {"e1"}, type : {"Person", "Animal"}, confidence : {Absent, Num(9)}]
WriteTripleItems ==
    [subject : {"e1"}, predicate : {"PREFERS", "LIKES"}, object : {"e2"},
     confidence : {Num(3), Num(9)}]
WriteStructured ==
    NonObjectResponses \cup
    ObjectResponses("facts", WriteFactItems, 2, "episodes", WriteEpisodeItems, 1)
WriteTriples ==
    NonObjectResponses \cup
    ObjectResponses("entities", WriteEntityItems, 1, "triples", WriteTripleItems, 1)

WriteExtractions ==
    {ExtractionOf(r1, r2) : r1 \in WriteStructured, r2 \in WriteTriples}

InitWrite ==
    /\ InitKv /\ InitEp /\ InitGraph /\ InitWr /\ InitRest
    /\ extractIO = NoIO /\ embedIO = NoIO /\ pathIO = NoIO
    /\ searchIO = NoIO /\ forgetIO = NoIO /\ queryIO = NoIO
    /\ summarizeIO = NoIO /\ scoreIO = NoIO

NextWrite ==
    \/ WriteBegin("w1", WriteRequests, WriteExtractions)
    \/ WriteFact("w1")
    \/ WriteEpisode("w1")
    \/ WriteUser("w1")
    \/ WriteEntity("w1")
    \/ WriteFactRel("w1")
    \/ WriteTriple("w1")

\* one write_memory call, every store operation free to fail
SpecWrite == InitWrite /\ [][NextWrite]_vars

\* ------------------------------------------------------------------ write_memory, two callers
\* two calls for the same owner whose first reasoning output lists one fact
\* with the key k1: any value, with the request timestamp of the caller
RaceRequests(w) ==
    {[guid |-> "u1", text |-> "t1", channel |-> "email",
      ts |-> IF w = "w1" THEN 1 ELSE 2]}
RaceStructured ==
    {Response("object", {"facts"},
              <<[key |-> "k1", value |-> v, confidence |-> Num(9)]>>, <<>>) :
        v \in Values}
RaceTriples == {Response("text", {}, <<>>, <<>>)}

RaceExtractions ==
    {ExtractionOf(r1, r2) : r1 \in RaceStructured, r2 \in RaceTriples}

NextRace ==
    \E w \in Writers :
        \/ WriteBegin(w, RaceRequests(w), RaceExtractions)
        \/ WriteFact(w)
        \/ WriteEpisode(w)
        \/ WriteUser(w)
        \/ WriteFactRel(w)

\* two concurrent write_memory calls, interleaved at every store call
SpecRace == InitWrite /\ [][NextRace]_vars

\* ------------------------------------------------------------------ the clock and seeded stores
\* the clock moves DayStep days at a time, up to MaxDays
DayStep == 31
MaxDays == 31

\* what a service call or a direct query returned is not kept once the clock
\* moves on, an episode is added or another service call returns
DropResults ==
    /\ searchIO' = NoIO /\ queryIO' = NoIO /\ forgetIO' = NoIO
    /\ summarizeIO' = NoIO
    /\ UNCHANGED <<extractIO, embedIO, pathIO>>

Tick ==
    /\ now < MaxDays
    /\ now' = now + DayStep
    /\ DropResults
    /\ UNCHANGED <<kvVars, epVars, graphVars, settings, scoreIO, wr>>

\* at most MaxEpisodes episodes are stored directly
MaxEpisodes == 2

\* vector_store.upsert_episode(guid, text, {importance, ...}, embedding) for
\* one of the (guid, text) pairs given, with the embedding of the text
SeedEpisode(pairs, importances) ==
    /\ nextId <= MaxEpisodes
    /\ \E p \in pairs, importance \in importances :
         upsert_episode(p[1], p[2], importance, "email", 1, TextEmbedding(p[2]), TRUE)
    /\ DropResults
    /\ UNCHANGED <<kvVars, graphVars, now, settings, scoreIO, wr>>

\* fact rows written earlier, all at confidence 0.9 but one at 0.3 (written
\* under a lower DEFAULT_CONFIDENCE_THRESHOLD)
SeededFacts ==
    {FactRow("u1", "k1", "v1", 9, "email", 1), FactRow("u1", "k2", "v1", 3, "email", 1),
     FactRow("u2", "k1", "v2", 9, "email", 2)}

InitSeeded(tables, graphs) ==
    /\ facts \in tables
    /\ lastUpsert = [p \in Owners \X Keys |->
                        IF RowsOf(facts, p[1], p[2]) = {} THEN NoValue
                        ELSE (CHOOSE r \in RowsOf(facts, p[1], p[2]) : TRUE).value]
    /\ kvRet = [op |-> "none", ok |-> FALSE, replaced |-> FALSE]
    /\ InitEp /\ InitWr /\ InitRest
    /\ graph_store = "None"
    /\ \E G \in graphs : gNodes = G.nodes /\ gEdges = G.edges
    /\ extractIO = NoIO /\ embedIO = NoIO /\ pathIO = NoIO
    /\ searchIO = NoIO /\ forgetIO = NoIO /\ queryIO = NoIO
    /\ summarizeIO = NoIO /\ scoreIO = NoIO

\* ------------------------------------------------------------------ forget_memory
\* k=1000 of forget_memory's query_similar call, and the since_days and k
\* that query_similar and search_memory take by default
ForgetK == 1000
DefaultSinceDays == 30
DefaultK == 8

\* an entry of deleted_items: "fact:<arg>", "episodes:<n>",
\* "episodes:marked_redacted", "graph:relationships_updated"
DeletedItem(item, arg, n) == [item |-> item, arg |-> arg, n |-> n]

\* for key in keys: if kv_store.delete_fact(guid, key): append "fact:<key>"
\* (oks[i]: the i-th delete_fact met no exception)
RECURSIVE ForgetFacts(_, _, _, _, _)
ForgetFacts(table, g, keys, oks, i) ==
    IF i > Len(keys) THEN [table |-> table, items |-> <<>>]
    ELSE LET rest == ForgetFacts(IF oks[i] THEN DeleteWhere(table, g, keys[i]) ELSE table,
                                 g, keys, oks, i + 1)
         IN  [table |-> rest.table,
              items |-> (IF delete_fact_returns(table, g, keys[i], oks[i])
                         THEN <<DeletedItem("fact", keys[i], 0)>> ELSE <<>>)
                        \o rest.items]

\* the request with every optional field at its default (graph: entities or
\* predicates are named), the requests that differ from it in one field, and
\* the requests with every field set
DefaultForget == [guid |-> "u1", keys |-> <<>>, hard_delete |-> FALSE, graph |-> FALSE]
FullForget(g) == [guid |-> g, keys |-> <<"k1", "k2">>, hard_delete |-> TRUE, graph |-> TRUE]
ForgetRequests ==
    {DefaultForget,
     [DefaultForget EXCEPT !.guid = "u2"],
     [DefaultForget EXCEPT !.keys = <<"k1", "k2">>],
     [DefaultForget EXCEPT !.hard_delete = TRUE],
     [DefaultForget EXCEPT !.graph = TRUE],
     FullForget("u1"), FullForget("u2")}

\* the requests without the owner identifier
ForgetRequestsLacking == {[hard_delete |-> TRUE], [keys |-> <<"k1">>]}

\* the calls of a forget that may fail; a forget is tried with none or one of
\* them failing
ForgetCalls == {"delete_fact", "query_similar", "delete_by_ids", "confirmation"}
ForgetFailures == {{}} \cup {{x} : x \in ForgetCalls}

\* forget_memory: guid = data["guid"], the fact deletions, then with hard_delete the episodes
\* that query_similar(guid, "", k=1000) lists are deleted by id (the result
\* of delete_by_ids is not looked at), then the confirmation text
ForgetMemory(reqs, lacking, failures) ==
    \/ \E req \in lacking :
         /\ MissingFields(req, {"guid"}) # {}
         /\ forgetIO' = [state |-> "rejected", req |-> req,
                         ret |-> ExceptException(TRUE)]
         /\ queryIO' = NoIO /\ searchIO' = NoIO /\ summarizeIO' = NoIO
         /\ UNCHANGED <<kvVars, epVars, graphVars, now, settings, scoreIO, wr,
                        extractIO, embedIO, pathIO>>
    \/ \E req \in reqs, fail \in failures :
      \E oks \in {o \in [1..Len(req.keys) -> BOOLEAN] :
                     (\E i \in DOMAIN o : ~o[i]) <=> "delete_fact" \in fail} :
        \E hits \in (IF req.hard_delete
                     THEN query_similar(episodes, req.guid, EmbeddingsOf(""), ForgetK,
                                        DefaultSinceDays, now,
                                        "query_similar" \notin fail)
                     ELSE {<<>>}) :
          LET ff == ForgetFacts(facts, req.guid, req.keys, oks, 1)
              ids == {hits[i].id : i \in 1..Len(hits)}
              epItems == IF ~req.hard_delete
                         THEN <<DeletedItem("episodes", "marked_redacted", 0)>>
                         ELSE IF ids # {}
                         THEN <<DeletedItem("episodes", "-", Len(hits))>>
                         ELSE <<>>
              gItems == IF req.graph
                        THEN <<DeletedItem("graph", "relationships_updated", 0)>>
                        ELSE <<>>
          IN  /\ facts' = ff.table
              /\ IF req.hard_delete /\ ids # {}
                 THEN delete_by_ids(ids, "delete_by_ids" \notin fail)
                 ELSE UNCHANGED epVars
              /\ forgetIO' = [state |-> "returned", guid |-> req.guid,
                              keys |-> req.keys, hard_delete |-> req.hard_delete,
                              ret |-> ExceptException(FALSE),
                              deleted_items |-> ff.items \o epItems \o gItems,
                              confirmation |-> IF "confirmation" \in fail
                                               THEN "" ELSE "text",
                              failed |-> fail,
                              episodes_before |->
                                  {e.id : e \in {x \in episodes : x.guid = req.guid}},
                              facts_before |-> {r \in facts : r.guid = req.guid},
                              table_before |-> facts]
              /\ queryIO' = NoIO /\ searchIO' = NoIO /\ summarizeIO' = NoIO
              /\ UNCHANGED <<lastUpsert, kvRet, graphVars, now, settings, scoreIO, wr,
                             extractIO, embedIO, pathIO>>

\* a direct vector_store.query_similar(guid, query, k, since_days)
QuerySimilar ==
    \E g \in Owners, k \in {DefaultK},
       since_days \in {0, DefaultSinceDays}, ok \in BOOLEAN :
      \E hits \in query_similar(episodes, g, EmbeddingsOf("t1"), k, since_days, now, ok) :
        /\ queryIO' = [state |-> "returned", guid |-> g, k |-> k,
                       since_days |-> since_days, hits |-> hits]
        /\ UNCHANGED <<kvVars, epVars, graphVars, now, settings, scoreIO, wr,
                       extractIO, embedIO, pathIO, searchIO, forgetIO, summarizeIO>>

InitForget == InitSeeded({SeededFacts}, {Graph({}, {})})

NextForget ==
    \/ Tick
    \/ SeedEpisode({<<"u1", "t1">>, <<"u2", "t1">>}, {DefaultImportance})
    \/ ForgetMemory(ForgetRequests, ForgetRequestsLacking, ForgetFailures)
    \/ QuerySimilar

\* forget_memory among direct episode upserts, queries and a moving clock
SpecForget == InitForget /\ [][NextForget]_vars

\* ------------------------------------------------------------------ search_memory
\* the queries tried, and query.lower().split() of each
Queries == {"e1", "E1 e2"}
QueryTokens(query) ==
    CASE query = "e1" -> <<"e1">>
      [] query = "E1 e2" -> <<"e1", "e2">>
      [] OTHER -> <<>>

\* find_paths(guid, token, k=3); episodes=scored_episodes[:5]; and the
\* facts[:5], episodes[:3], graph_hits[:3] of build_context_card
FindPathsK == 3
TopEpisodes == 5
CardFacts == 5
CardEpisodes == 3
CardGraphHits == 3

\* the request with every optional field at its default, and the requests
\* that differ from it in one field
DefaultSearch ==
    [guid |-> "u1", query |-> "e1", k |-> DefaultK, since_days |-> DefaultSinceDays,
     include_graph |-> TRUE]
SearchRequests ==
    {DefaultSearch,
     [DefaultSearch EXCEPT !.guid = "u2"],
     [DefaultSearch EXCEPT !.query = "E1 e2"],
     [DefaultSearch EXCEPT !.k = 1],
     [DefaultSearch EXCEPT !.since_days = 0],
     [DefaultSearch EXCEPT !.include_graph = FALSE]}

\* the requests without the owner identifier or without the query
SearchRequestsLacking == {[query |-> "e1"], [guid |-> "u1"]}

\* the reads and calls of a search that may fail; a search is tried with none
\* or one of them failing
SearchReads == {"episodes", "facts", "path_len", "find_paths", "card"}
SearchFailures == {{}} \cup {{x} : x \in SearchReads}

\* for token in query_tokens: graph_hits.extend(find_paths(guid, token, k=3))
RECURSIVE TokenPaths(_, _, _, _, _)
TokenPaths(G, g, tokens, ok, i) ==
    IF i > Len(tokens) THEN <<>>
    ELSE find_paths(G, g, tokens[i], FindPathsK, ok) \o TokenPaths(G, g, tokens, ok, i + 1)

\* the paths found for the tokens, then for the full query
SearchPaths(G, req, ok) ==
    TokenPaths(G, req.guid, QueryTokens(req.query), ok, 1)
    \o find_paths(G, req.guid, req.query, FindPathsK, ok)

\* the graph_hits of a search whose get_graph_store() calls succeed
GraphHits(G, req, fs, ok) ==
    LET paths == SearchPaths(G, req, ok)
    IN  IF ~req.include_graph THEN <<>>
        ELSE IF paths = <<>> /\ fs # <<>>
        THEN <<[kind |-> "synthesized", length |-> 2, n |-> Len(fs)]>>
        ELSE paths

\* search_memory: the candidates, the facts, the query embedding, the scores
\* and the stable sort, the graph hits, the context card.  The lookup for a
\* token gives the same answer for every candidate of the call.  A caller
\* issues its next search once the result of the last one has been dropped.
SearchMemory(reqs, lacking, failures) ==
    /\ searchIO.state = "unused"
    /\ \/ \E req \in lacking :
            /\ MissingFields(req, {"guid", "query"}) # {}
            /\ searchIO' = [state |-> "rejected", req |-> req,
                            ret |-> ExceptException(TRUE)]
            /\ forgetIO' = NoIO /\ queryIO' = NoIO /\ summarizeIO' = NoIO
            /\ UNCHANGED <<kvVars, epVars, graphVars, now, settings, scoreIO, wr,
                           extractIO, embedIO, pathIO>>
       \/ \E req \in reqs, up \in Reachability, fail \in failures :
         \E cands \in query_similar(episodes, req.guid, EmbeddingsOf(req.query), req.k,
                                    req.since_days, now, "episodes" \notin fail),
            fs \in (IF "facts" \in fail THEN {<<>>}
                    ELSE get_facts(facts, req.guid, SearchMinConf)),
            qe \in EmbeddingsOf(req.query) :
           LET tokens == QueryTokens(req.query)
               query_embedding == IF qe = <<>> THEN <<>> ELSE qe[1]
               raises == get_graph_store_raises(graph_store, up)
               lookup(t) == graph_proximity_score(CurrentGraph, graph_store, up,
                                                  req.guid, t, "path_len" \notin fail)
               T == {tokens[i] : i \in 1..Len(tokens)}
           IN  \E prox \in [T -> UNION {lookup(t) : t \in T}] :
                 /\ \A t \in T : prox[t] \in lookup(t)
                 /\ \E scored \in {SortByScore(
                                      [i \in 1..Len(cands) |->
                                          calculate_score(cands[i], query_embedding,
                                                          tokens, prox, now)])},
                       paths \in {IF req.include_graph /\ ~raises
                                  THEN SearchPaths(CurrentGraph, req,
                                                   "find_paths" \notin fail)
                                  ELSE <<>>},
                       hits \in {GraphHits(CurrentGraph, req, fs,
                                           "find_paths" \notin fail)} :
                      LET card_input == [query |-> req.query,
                                         facts |-> Prefix(fs, CardFacts),
                                         episodes |-> Prefix(Prefix(scored, TopEpisodes),
                                                             CardEpisodes),
                                         graph_hits |-> Prefix(hits, CardGraphHits)]
                          failed == \/ req.include_graph /\ raises
                                    \/ \E i \in 1..Len(scored) : scored[i].raised
                      IN  /\ searchIO' =
                                 [state |-> "returned", req |-> req,
                                  ret |-> ExceptException(failed),
                                  failures |-> fail,
                                  paths |-> paths,
                                  candidates |-> cands,
                                  query_embedding |-> query_embedding,
                                  episodes |-> IF failed THEN <<>> ELSE scored,
                                  facts |-> IF failed THEN <<>> ELSE fs,
                                  graph_hits |-> IF failed THEN <<>> ELSE hits,
                                  card_input |-> card_input,
                                  context_card |-> IF failed \/ "card" \in fail
                                                   THEN "" ELSE "card"]
                          /\ graph_store' =
                                 IF (cands # <<>> /\ tokens # <<>>) \/ req.include_graph
                                 THEN get_graph_store_after(graph_store, up)
                                 ELSE graph_store
                 /\ forgetIO' = NoIO /\ queryIO' = NoIO /\ summarizeIO' = NoIO
                 /\ UNCHANGED <<kvVars, epVars, gNodes, gEdges, now, settings, scoreIO, wr,
                                extractIO, embedIO, pathIO>>

InitSearch == InitSeeded({SeededFacts}, {SeededGraph})

NextSearch ==
    \/ Tick
    \/ SeedEpisode({<<"u1", "t1">>, <<"u1", "s1">>, <<"u2", "t1">>}, {DefaultImportance})
    \/ SearchMemory(SearchRequests, SearchRequestsLacking, SearchFailures)

\* search_memory over stores seeded directly, with a moving clock
SpecSearch == InitSearch /\ [][NextSearch]_vars

\* ------------------------------------------------------------------ summarize_memory
\* since_days = data.get("since_days", 7); k=20; episodes[:10]
SummarizeSinceDays == 7
SummarizeK == 20
SummarizeTexts == 10

\* requests with since_days left out or given, and one without the owner
SummarizeRequests ==
    {[guid |-> "u1"], [guid |-> "u2"], [guid |-> "u1", since_days |-> DefaultSinceDays],
     [since_days |-> SummarizeSinceDays]}

\* the calls of a summarize that may fail, none or one of them in a call
SummarizeFailures == {{}, {"query_similar"}, {"claude_complete"}}

\* summarize_memory: the episodes nearest to "recent activity" within
\* since_days; without any, the fixed summary; otherwise the completion over
\* the texts of the first ten (claude_complete gives "" on any error)
SummarizeMemory(reqs, failures) ==
    /\ \E req \in reqs, fail \in failures :
         IF MissingFields(req, {"guid"}) # {}
         THEN summarizeIO' = [state |-> "rejected", req |-> req,
                              ret |-> ExceptException(TRUE)]
         ELSE \E hits \in query_similar(episodes, req.guid,
                                        EmbeddingsOf("recent activity"), SummarizeK,
                                        Field(req, "since_days", SummarizeSinceDays),
                                        now, "query_similar" \notin fail) :
                summarizeIO' =
                    [state |-> "returned", req |-> req,
                     ret |-> ExceptException(FALSE),
                     failures |-> fail,
                     texts |-> IF hits = <<>> THEN <<>>
                               ELSE [i \in 1..Len(Prefix(hits, SummarizeTexts)) |->
                                        hits[i].text],
                     summary |-> IF hits = <<>> THEN "No recent memories found"
                                 ELSE IF "claude_complete" \in fail THEN ""
                                 ELSE "summary",
                     episodes_analyzed |-> Len(hits)]
    /\ searchIO' = NoIO /\ forgetIO' = NoIO /\ queryIO' = NoIO
    /\ UNCHANGED <<kvVars, epVars, graphVars, now, settings, scoreIO, wr,
                   extractIO, embedIO, pathIO>>

\* ------------------------------------------------------------------ the four operations
\* the writes of the service as a whole: a complete request and one without
\* the text; a reasoning output that is no object, and one listing a fact, an
\* episode, an entity and a triple
ServiceWriteRequests ==
    {[guid |-> "u1", text |-> "t1", channel |-> "email", ts |-> 1],
     [guid |-> "u1", channel |-> "email", ts |-> 1]}
ServiceStructured ==
    {Response("text", {}, <<>>, <<>>), Response("list", {}, <<>>, <<>>),
     Response("object", {"facts", "episodes"},
              <<[key |-> "k2", value |-> "v2", confidence |-> Num(9)]>>,
              <<[summary |-> "s1", confidence |-> Num(9)]>>)}
ServiceTriples ==
    {Response("object", {"entities", "triples"},
              <<[name |-> "e2", type |-> "Person", confidence |-> Num(9)]>>,
              <<[subject |-> "e1", predicate |-> "PREFERS", object |-> "e2",
                 confidence |-> Num(9)]>>)}
ServiceExtractions ==
    {ExtractionOf(r1, r2) : r1 \in ServiceStructured, r2 \in ServiceTriples}

InitService == InitSeeded({SeededFacts}, {SeededGraph})

NextService ==
    \/ WriteBegin("w1", ServiceWriteRequests, ServiceExtractions)
    \/ WriteFact("w1")
    \/ WriteEpisode("w1")
    \/ WriteUser("w1")
    \/ WriteEntity("w1")
    \/ WriteFactRel("w1")
    \/ WriteTriple("w1")
    \/ SearchMemory({DefaultSearch}, {[query |-> "e1"]}, {{}, {"episodes"}})
    \/ SummarizeMemory(SummarizeRequests, SummarizeFailures)
    \/ ForgetMemory({DefaultForget, FullForget("u1")}, {[hard_delete |-> TRUE]},
                    {{}, {"delete_fact"}})

\* one write_memory call among searches, summaries and forgets
SpecService == InitService /\ [][NextService]_vars

\* ------------------------------------------------------------------ calculate_score alone
\* the episode dicts scored: with no embedding key, or with an empty, a
\* zero, a unit, another or a one-component embedding; with the timestamp and
\* the importance missing, of another type, null, or numbers; with and
\* without a priority
ScoreEmbeddings == {<<>>, <<0, 0>>, <<1, 0>>, <<3, 4>>, <<1>>}
ScoreEpisodes ==
    {[id |-> <<"u1", 1>>, text |-> "t1", timestamp |-> ts, importance |-> imp,
      priority |-> pr, distance |-> 0, similarity |-> 1,
      has_embedding |-> emb.has, embedding |-> emb.e] :
        ts \in {Absent, NonNumber, Num(0)},
        imp \in {Absent, Null, Num(5), Num(9)},
        pr \in {"absent", "high", "low", "urgent"},
        emb \in {[has |-> FALSE, e |-> <<>>]}
                    \cup {[has |-> TRUE, e |-> v] : v \in ScoreEmbeddings}}
ScoreQueryEmbeddings == {<<>>, <<0, 0>>, <<1, 0>>, <<4, 3>>}
ScoreDays == {0, 7}

\* the call: the episode, the query embedding, the tokens and what the graph
\* lookup gives for each (0.0 when it fails, or 1/2)
InitScore ==
    /\ InitKv /\ InitEp /\ InitGraph /\ InitWr
    /\ settings = DefaultSettings
    /\ now \in ScoreDays
    /\ extractIO = NoIO /\ embedIO = NoIO /\ pathIO = NoIO
    /\ searchIO = NoIO /\ forgetIO = NoIO /\ queryIO = NoIO
    /\ summarizeIO = NoIO
    /\ \E ep \in ScoreEpisodes, qe \in ScoreQueryEmbeddings,
          tokens \in {<<>>, <<"e1">>} :
         \E prox \in [{tokens[i] : i \in 1..Len(tokens)} -> {Rat(0, 1), Rat(1, 2)}] :
            scoreIO = [state |-> "called", episode |-> ep, query_embedding |-> qe,
                       tokens |-> tokens, prox |-> prox]

CalculateScore ==
    /\ scoreIO.state = "called"
    /\ scoreIO' = [state |-> "returned", episode |-> scoreIO.episode,
                   query_embedding |-> scoreIO.query_embedding,
                   tokens |-> scoreIO.tokens, prox |-> scoreIO.prox,
                   out |-> calculate_score(scoreIO.episode, scoreIO.query_embedding,
                                           scoreIO.tokens, scoreIO.prox, now)]
    /\ UNCHANGED <<kvVars, epVars, graphVars, now, settings, wr, ioVars>>

NextScore == CalculateScore

\* calculate_score applied to each episode, query embedding and lookup result
SpecScore == InitScore /\ [][NextScore]_vars

\* ------------------------------------------------------------------ search_memory, many episodes
\* the owner u1 already has up to MaxStored episodes, stored at day 0 by
\* earlier writes, their texts alternating and each important or not
MaxStored == 5
StoredEpisodes(n, importances) ==
    {Episode(<<"u1", i>>, "u1", IF i % 2 = 1 THEN "t1" ELSE "s1",
             TextEmbedding(IF i % 2 = 1 THEN "t1" ELSE "s1"), 0, importances[i],
             "email", 1) : i \in 1..n}

InitCard ==
    /\ facts = SeededFacts
    /\ lastUpsert = [p \in Owners \X Keys |->
                        IF RowsOf(facts, p[1], p[2]) = {} THEN NoValue
                        ELSE (CHOOSE r \in RowsOf(facts, p[1], p[2]) : TRUE).value]
    /\ kvRet = [op |-> "none", ok |-> FALSE, replaced |-> FALSE]
    /\ \E n \in 0..MaxStored :
         \E importances \in [1..n -> {DefaultImportance, 9}] :
            /\ episodes = StoredEpisodes(n, importances)
            /\ nextId = n + 1
    /\ InitWr /\ InitRest
    /\ graph_store = "None"
    /\ gNodes = SeededGraph.nodes /\ gEdges = SeededGraph.edges
    /\ extractIO = NoIO /\ embedIO = NoIO /\ pathIO = NoIO
    /\ searchIO = NoIO /\ forgetIO = NoIO /\ queryIO = NoIO
    /\ summarizeIO = NoIO /\ scoreIO = NoIO

NextCard ==
    SearchMemory({DefaultSearch, [DefaultSearch EXCEPT !.include_graph = FALSE]},
                 {[query |-> "e1"]}, {{}, {"card"}})

\* one search_memory over a store that holds several episodes of the owner
SpecCard == InitCard /\ [][NextCard]_vars

\* ------------------------------------------------------------------ the service over stored episodes
\* both owners already have an episode, stored at day 0 by earlier writes
FrameEpisodes ==
    {Episode(<<"u1", 1>>, "u1", "t1", TextEmbedding("t1"), 0, DefaultImportance,
             "email", 1),
     Episode(<<"u2", 2>>, "u2", "t2", TextEmbedding("t2"), 0, DefaultImportance,
             "email", 1)}

InitFrame ==
    /\ facts = SeededFacts
    /\ lastUpsert = [p \in Owners \X Keys |->
                        IF RowsOf(facts, p[1], p[2]) = {} THEN NoValue
                        ELSE (CHOOSE r \in RowsOf(facts, p[1], p[2]) : TRUE).value]
    /\ kvRet = [op |-> "none", ok |-> FALSE, replaced |-> FALSE]
    /\ episodes = FrameEpisodes /\ nextId = 3
    /\ InitWr /\ InitRest
    /\ graph_store = "None"
    /\ gNodes = SeededGraph.nodes /\ gEdges = SeededGraph.edges
    /\ extractIO = NoIO /\ embedIO = NoIO /\ pathIO = NoIO
    /\ searchIO = NoIO /\ forgetIO = NoIO /\ queryIO = NoIO
    /\ summarizeIO = NoIO /\ scoreIO = NoIO

NextFrame ==
    \/ WriteBegin("w1", ServiceWriteRequests, ServiceExtractions)
    \/ WriteFact("w1")
    \/ WriteEpisode("w1")
    \/ WriteUser("w1")
    \/ WriteEntity("w1")
    \/ WriteFactRel("w1")
    \/ WriteTriple("w1")
    \/ SearchMemory({DefaultSearch, [DefaultSearch EXCEPT !.guid = "u2"]},
                    {[query |-> "e1"]}, {{}})
    \/ SummarizeMemory({[guid |-> "u1"], [guid |-> "u2"]}, {{}})
    \/ ForgetMemory({DefaultForget, FullForget("u1"), FullForget("u2")},
                    {[hard_delete |-> TRUE]}, {{}})

\* one write_memory call among searches, summaries and forgets of both owners
SpecFrame == InitFrame /\ [][NextFrame]_vars

\* ------------------------------------------------------------------ two owners
\* the graph earlier writes of both owners left: each owner's anchor with a
\* Fact node for k1, and an Entity
OwnersGraph ==
    Graph({UserNode("u1"), UserNode("u2"), FactNode("k1", "u1", "v1", 9),
           FactNode("k1", "u2", "v2", 9), EntityNode("e1", "Person")},
          {Edge(NodeId(UserNode("u1")), <<"Fact", "k1", "u1">>, "HAS_FACT", "-", 0),
           Edge(NodeId(UserNode("u2")), <<"Fact", "k1", "u2">>, "HAS_FACT", "-", 0)})

\* a write by either owner: fact k1, an entity and a triple, the text as the
\* episode
OwnersWriteRequests ==
    {[guid |-> g, text |-> "t1", channel |-> "email", ts |-> 2] : g \in Owners}
OwnersExtractions ==
    {ExtractionOf(Response("object", {"facts"},
                           <<[key |-> "k1", value |-> "v2", confidence |-> Num(9)]>>,
                           <<>>),
                  r2) : r2 \in ServiceTriples}

InitOwners ==
    /\ facts = SeededFacts
    /\ lastUpsert = [p \in Owners \X Keys |->
                        IF RowsOf(facts, p[1], p[2]) = {} THEN NoValue
                        ELSE (CHOOSE r \in RowsOf(facts, p[1], p[2]) : TRUE).value]
    /\ kvRet = [op |-> "none", ok |-> FALSE, replaced |-> FALSE]
    /\ episodes = FrameEpisodes /\ nextId = 3
    /\ InitWr /\ InitRest
    /\ graph_store = "None"
    /\ gNodes = OwnersGraph.nodes /\ gEdges = OwnersGraph.edges
    /\ extractIO = NoIO /\ embedIO = NoIO /\ pathIO = NoIO
    /\ searchIO = NoIO /\ forgetIO = NoIO /\ queryIO = NoIO
    /\ summarizeIO = NoIO /\ scoreIO = NoIO

NextOwners ==
    \/ WriteBegin("w1", OwnersWriteRequests, OwnersExtractions)
    \/ WriteFact("w1")
    \/ WriteEpisode("w1")
    \/ WriteUser("w1")
    \/ WriteEntity("w1")
    \/ WriteFactRel("w1")
    \/ WriteTriple("w1")
    \/ SearchMemory({DefaultSearch, [DefaultSearch EXCEPT !.guid = "u2"]},
                    {[query |-> "e1"]}, {{}})
    \/ ForgetMemory({DefaultForget, FullForget("u1"), FullForget("u2")},
                    {[hard_delete |-> TRUE]}, {{}})

\* a write_memory call by one of two owners among searches and forgets of both
SpecOwners == InitOwners /\ [][NextOwners]_vars

\* ------------------------------------------------------------------ claims
\* the nodes joined to the nodes of S by relationships, in either direction
RECURSIVE ConnectedTo(_, _)
ConnectedTo(edges, S) ==
    IF Neighbours(edges, S) \subseteq S THEN S
    ELSE ConnectedTo(edges, S \cup Neighbours(edges, S))

\* C1: after any sequence of upsert_fact and delete_fact calls the table holds
\* at most one row per (guid, key), and an existing row carries the value of
\* the most recent successful upsert_fact for that pair.
C1_OneRowLatestValue ==
    \A g \in Owners, k \in Keys :
        /\ Cardinality(RowsOf(facts, g, k)) <= 1
        /\ \A r \in RowsOf(facts, g, k) : r.value = lastUpsert[<<g, k>>]

\* C1 witness: an upsert of (u1, k1) replaced a row holding another value, and
\* the one row left carries the new value v2.
C1_Witness ==
    /\ kvRet = [op |-> "upsert_fact", ok |-> TRUE, replaced |-> TRUE]
    /\ RowsOf(facts, "u1", "k1") # {}
    /\ \A r \in RowsOf(facts, "u1", "k1") : r.value = "v2"
    /\ lastUpsert[<<"u1", "k1">>] = "v2"

\* the write_memory calls of both callers have returned
BothReturned == \A w \in Writers : wr[w].pc = "returned"

\* some call of the log is a successful upsert_fact
UpsertedFact(w) ==
    \E i \in 1..Len(wr[w].calls) :
        wr[w].calls[i].op = "upsert_fact" /\ wr[w].calls[i].ok

\* C2: when two concurrent write_memory calls for the owner u1 that both
\* extract the key k1 have returned, under every interleaving of their store
\* calls every get_facts result for u1 lists at most one row for k1, exactly
\* one if an upsert_fact went through, and that row carries the value of the
\* upsert_fact that completed last.
C2_LastCompletedUpsertWins ==
    BothReturned =>
        \A sq \in get_facts(facts, "u1", 0) :
            LET rows == {i \in 1..Len(sq) : sq[i].key = "k1"}
            IN  /\ Cardinality(rows) <= 1
                /\ (\E w \in Writers : UpsertedFact(w)) => Cardinality(rows) = 1
                /\ \A i \in rows : sq[i].value = lastUpsert[<<"u1", "k1">>]

\* C2 witness: both calls upserted their fact, with different values; the row
\* left is the one of the call with the older request timestamp, whose upsert
\* completed last.
C2_Witness ==
    /\ BothReturned
    /\ UpsertedFact("w1") /\ UpsertedFact("w2")
    /\ wr["w1"].ext.facts[1].value # wr["w2"].ext.facts[1].value
    /\ \E r \in RowsOf(facts, "u1", "k1") :
           /\ r.ts = wr["w1"].ts
           /\ r.value = wr["w1"].ext.facts[1].value
           /\ wr["w1"].ts < wr["w2"].ts

\* the store operations that carry an extracted fact or triple
LevelledOps == {"upsert_fact", "upsert_fact_rel", "upsert_triple"}

\* the episode a call writes when no extracted episode is left: the raw text
\* with the default importance
IsFallbackEpisode(rec, c) ==
    /\ rec.ext.episodes = <<>>
    /\ c.arg = rec.text
    /\ c.level = DefaultImportance

\* C3 as stated: every fact, episode and triple that write_memory passes to a
\* store has confidence (importance) at or above the threshold.
C3_AllStoredMeetThreshold ==
    \A w \in Writers : \A i \in 1..Len(wr[w].calls) :
        wr[w].calls[i].op \in LevelledOps \cup {"upsert_episode"}
            => wr[w].calls[i].level >= confidence_threshold

\* C3: every fact and triple that write_memory passes to a store has
\* confidence at or above the threshold, and so has the importance of an
\* episode taken from the extraction; the only episode below it is the raw
\* request text with importance 0.5, written when the extraction has no
\* episode; every fact row and episode stored agrees with this.
C3_StoredMeetThresholdOrFallback ==
    /\ \A w \in Writers : \A i \in 1..Len(wr[w].calls) :
           LET c == wr[w].calls[i]
           IN  /\ c.op \in LevelledOps => c.level >= confidence_threshold
               /\ c.op = "upsert_episode"
                      => \/ c.level >= confidence_threshold
                         \/ IsFallbackEpisode(wr[w], c)
    /\ \A r \in facts : r.confidence >= confidence_threshold
    /\ \A e \in episodes :
           \/ e.importance >= confidence_threshold
           \/ e.importance = DefaultImportance /\ e.text \in {"t1"}

\* C3 witness: a call that returned success stored a fact and a triple with
\* confidence 0.9 and, having no extracted episode, the raw text with
\* importance 0.5.
C3_Witness ==
    /\ wr["w1"].ret = "success"
    /\ \E i, j, l \in 1..Len(wr["w1"].calls) :
           /\ wr["w1"].calls[i] = Call("upsert_fact", "k1", 9, TRUE)
           /\ wr["w1"].calls[j] = Call("upsert_episode", "t1", DefaultImportance, TRUE)
           /\ wr["w1"].calls[l] = Call("upsert_triple", "e1", 9, TRUE)
    /\ \E e \in episodes : e.text = "t1" /\ e.importance = DefaultImportance

\* what json.loads rejects: the empty text and text that is not JSON
Unparseable == {"empty", "text"}

\* C4: when both reasoning outputs are unparseable, write_memory returns
\* success=true and leaves no row in the FactStore and no episode in the
\* EpisodeStore.
C4_UnparseableWritesNothing ==
    (wr["w1"].pc = "returned" /\ wr["w1"].r1 \in Unparseable
                              /\ wr["w1"].r2 \in Unparseable)
        => /\ wr["w1"].ret = "success"
           /\ facts = {}
           /\ episodes = {}

\* C5: for every reasoning output extract_all returns its four lists and never
\* raises.
C5_ExtractAllNeverRaises ==
    extractIO.state = "returned" => ~extractIO.out.raised

\* C6: when extraction succeeded, write_memory returns success=true and has
\* attempted every store operation of the call (one per extracted fact, the
\* owner anchor, one per entity, one per fact again, one per triple),
\* whichever of them failed.
C6_StoreFailuresIsolated ==
    (wr["w1"].pc = "returned" /\ ~wr["w1"].ext.raised)
        => /\ wr["w1"].ret = "success"
           /\ \E i \in 1..Len(wr["w1"].calls) : wr["w1"].calls[i].op = "upsert_user"
           /\ Cardinality({i \in 1..Len(wr["w1"].calls) :
                              wr["w1"].calls[i].op = "upsert_fact_rel"})
                  = Len(wr["w1"].ext.facts)
           /\ Cardinality({i \in 1..Len(wr["w1"].calls) :
                              wr["w1"].calls[i].op = "upsert_triple"})
                  = Len(wr["w1"].ext.triples)

\* C7: after a forget_memory with hard_delete=true returned success for an
\* owner, no later query_similar for that owner returns an episode that was
\* stored for the owner before the call, whatever its age and the since_days
\* of the query.
C7_HardDeleteHidesAllEpisodes ==
    (/\ forgetIO.state = "returned" /\ forgetIO.hard_delete
     /\ forgetIO.ret = "success"
     /\ queryIO.state = "returned" /\ queryIO.guid = forgetIO.guid)
        => \A i \in 1..Len(queryIO.hits) :
               queryIO.hits[i].id \notin forgetIO.episodes_before

\* the stored embedding of a returned episode
StoredEmbedding(id) == (CHOOSE e \in episodes : e.id = id).embedding

\* C8: of two episodes returned by one search_memory whose recency, importance
\* and graph-proximity terms are equal, the one whose embedding has the
\* strictly higher cosine similarity to the query embedding has the strictly
\* higher fused score.
C8_HigherSimilarityHigherScore ==
    (searchIO.state = "returned" /\ searchIO.ret = "success")
        => \A i, j \in 1..Len(searchIO.episodes) :
               LET a == searchIO.episodes[i]
                   b == searchIO.episodes[j]
                   q == searchIO.query_embedding
               IN  (/\ a.recency = b.recency
                    /\ a.importance = b.importance
                    /\ a.graph = b.graph
                    /\ ~cosine_similarity(q, StoredEmbedding(a.hit.id)).nan
                    /\ ~cosine_similarity(q, StoredEmbedding(b.hit.id)).nan
                    /\ cosine_similarity(q, StoredEmbedding(a.hit.id)).v
                           > cosine_similarity(q, StoredEmbedding(b.hit.id)).v)
                       => a.score > b.score

\* C9: titan_embed returns a list as long as its input, whatever the chunk
\* size, the retry count and the per-chunk gateway outcomes.
C9_EmbedLengthEqualsInput ==
    embedIO.state = "returned" => Len(embedIO.all_embeddings) = Len(embedIO.texts)

\* the owner anchor exists, and some entity named topic is joined to it
AnchorReaches(g, topic) ==
    /\ HasNode(CurrentGraph, NodeId(UserNode(g)))
    /\ EntitiesNamed(CurrentGraph, topic)
           \cap ConnectedTo(gEdges, {NodeId(UserNode(g))}) # {}

\* C10: shortest_path_len returns 99 whenever the anchor, the target entity or
\* a path between them is missing, or the query fails; graph_proximity_score
\* is 0 for a length of 99 or more and 1/(1+length) for a shorter one.
C10_SentinelAndProximity ==
    [][pathIO' # pathIO =>
         /\ ~pathIO'.store_raised =>
              /\ (pathIO'.query_failed \/ ~AnchorReaches(pathIO'.guid, pathIO'.topic))
                     => pathIO'.path_len = 99
              /\ pathIO'.path_len >= 99 => pathIO'.score = Rat(0, 1)
              /\ pathIO'.path_len < 99
                     => pathIO'.score = Rat(1, 1 + pathIO'.path_len)
         /\ pathIO'.store_raised => pathIO'.score = Rat(0, 1)]_vars

\* C10 witness, unreachable side: the anchor and the entity both exist, no
\* path joins them, and the query answered 99 and scored 0.
C10_WitnessUnreachable ==
    /\ pathIO.state = "returned"
    /\ ~pathIO.store_raised /\ ~pathIO.query_failed
    /\ HasNode(CurrentGraph, NodeId(UserNode(pathIO.guid)))
    /\ EntitiesNamed(CurrentGraph, pathIO.topic) # {}
    /\ pathIO.path_len = 99 /\ pathIO.score = Rat(0, 1)

\* the owner has a fact row that get_facts(guid, 0.6) selects
HasSearchableFact(g) == \E r \in facts : r.guid = g /\ r.confidence >= SearchMinConf

\* C11: a search_memory with include_graph=true, for an owner who has a fact
\* of confidence >= 0.6 that the FactStore read returns, and for which no path
\* is returned for any token or for the full query, returns graph_hits with
\* exactly one synthesized entry reporting the number of facts; with
\* include_graph=false, or with an empty facts list and no path, graph_hits is
\* empty.
C11_SynthesizedGraphHit ==
    searchIO.state = "returned" =>
        LET req == searchIO.req
            n == Cardinality({r \in facts : r.guid = req.guid
                                            /\ r.confidence >= SearchMinConf})
        IN  /\ (/\ req.include_graph
                /\ searchIO.paths = <<>>
                /\ "facts" \notin searchIO.failures
                /\ HasSearchableFact(req.guid))
                   => searchIO.graph_hits
                        = <<[kind |-> "synthesized", length |-> 2, n |-> n]>>
            /\ (~req.include_graph \/ (searchIO.facts = <<>> /\ searchIO.paths = <<>>))
                   => searchIO.graph_hits = <<>>

\* C12: a search_memory in which one store read fails or its store is
\* unavailable still returns success=true, with nothing from that source and
\* the results of the others.
C12_SearchSurvivesOneFailedRead ==
    searchIO.state = "returned" =>
        /\ searchIO.ret = "success"
        /\ "episodes" \in searchIO.failures => searchIO.episodes = <<>>
        /\ "facts" \in searchIO.failures => searchIO.facts = <<>>
        /\ "facts" \notin searchIO.failures
               => (searchIO.facts # <<>> <=> HasSearchableFact(searchIO.req.guid))
        /\ "episodes" \notin searchIO.failures
               => Len(searchIO.episodes) = Len(searchIO.candidates)

\* C14: a write_memory whose request lacks the owner identifier or the text
\* returns the failure envelope, without having called extract_all and
\* without any store operation: the stores are as they were before the call.
C14_MissingFieldRejected ==
    \A w \in Writers :
        (wr[w].pc # "idle" /\ wr[w].lacks \cap {"guid", "text"} # {})
            => /\ wr[w].pc = "returned"
               /\ wr[w].ret = "failure"
               /\ ~wr[w].extracted
               /\ wr[w].calls = <<>>
               /\ facts = {} /\ episodes = {} /\ gNodes = {} /\ gEdges = {}
               /\ graph_store = "None"

\* C14 witness: a request without the owner identifier was rejected.
C14_Witness ==
    /\ wr["w1"].pc = "returned"
    /\ wr["w1"].lacks = {"guid"}
    /\ wr["w1"].ret = "failure"


\* C13: every write_memory, search_memory, summarize_memory and forget_memory
\* call that has ended, whatever its request and whichever store or gateway
\* call failed in it, has returned the envelope: success, or failure with an
\* error; no exception has escaped.
C13_AlwaysAnEnvelope ==
    /\ \A w \in Writers : wr[w].pc = "returned" => wr[w].ret \in {"success", "failure"}
    /\ \A io \in {searchIO, summarizeIO, forgetIO} :
           io.state \in {"returned", "rejected"}
               => /\ io.ret \in {"success", "failure"}
                  /\ io.state = "rejected" => io.ret = "failure"

\* C13 witness: a write_memory call ended in the failure envelope after its
\* request was accepted, and a forget_memory without the owner identifier
\* ended in the failure envelope as well.
C13_Witness ==
    /\ wr["w1"].pc = "returned" /\ wr["w1"].lacks = {} /\ wr["w1"].ret = "failure"
    /\ forgetIO.state = "rejected" /\ forgetIO.ret = "failure"

\* str.lower() over the names and types written to the graph
Lower(str) ==
    CASE str = "E1" -> "e1"
      [] str = "Person" -> "person"
      [] str = "Animal" -> "animal"
      [] OTHER -> str

\* lowercase(type) + ':' + lowercase(name) with spaces replaced by underscores
\* (no name written to the graph has a space)
IdentityKey(node) == <<Lower(node.b), ":", Lower(node.a)>>

\* C15: after any sequence of upsert_entity and upsert_triple calls the graph
\* holds at most one Entity node per identity key.
C15_OneEntityPerIdentityKey ==
    \A x, y \in {n \in gNodes : n.label = "Entity"} :
        IdentityKey(x) = IdentityKey(y) => x = y

\* C16: in a write_memory call whose embedding of the episode text failed,
\* no episode is written to the EpisodeStore, and the call goes on to return
\* success.
C16_EmbeddingFailureSkipsEpisode ==
    \A w \in Writers :
        wr[w].embed_failed
            => /\ \A i \in 1..Len(wr[w].calls) : wr[w].calls[i].op # "upsert_episode"
               /\ \A e \in episodes : e.embedding # ZeroEmbedding
               /\ wr[w].pc = "returned" => wr[w].ret = "success"

\* C17: after a forget_memory, 'fact:<key>' is in deleted_items for a key of
\* the request exactly when a row of (owner, key) existed before the call and
\* the call removed it; every row the call removed is a row of the owner under
\* a key of the request.
C17_FactReportedIffRemoved ==
    forgetIO.state = "returned" =>
        LET g == forgetIO.guid
            keys == forgetIO.keys
            before == forgetIO.table_before
            reported(k) == \E j \in 1..Len(forgetIO.deleted_items) :
                               forgetIO.deleted_items[j] = DeletedItem("fact", k, 0)
        IN  /\ \A i \in 1..Len(keys) :
                   reported(keys[i]) <=> /\ RowsOf(before, g, keys[i]) # {}
                                         /\ RowsOf(facts, g, keys[i]) = {}
            /\ \A r \in before \ facts :
                   r.guid = g /\ \E i \in 1..Len(keys) : keys[i] = r.key
            /\ facts \subseteq before

\* C17 witness: a forget for u2 with the keys k1 and k2 removed the row of k1
\* and reported it, and did not report k2, for which u2 has no row.
C17_Witness ==
    /\ forgetIO.state = "returned"
    /\ forgetIO.guid = "u2" /\ forgetIO.keys = <<"k1", "k2">>
    /\ RowsOf(forgetIO.table_before, "u2", "k1") # {}
    /\ RowsOf(facts, "u2", "k1") = {}
    /\ \E j \in 1..Len(forgetIO.deleted_items) :
           forgetIO.deleted_items[j] = DeletedItem("fact", "k1", 0)
    /\ \A j \in 1..Len(forgetIO.deleted_items) :
           forgetIO.deleted_items[j] # DeletedItem("fact", "k2", 0)
    /\ \E r \in facts : r.guid = "u1"

\* C18: after a forget_memory with hard_delete=false that reports
\* 'episodes:marked_redacted', every episode of the owner carries a redaction
\* mark in its stored metadata.
C18_SoftForgetMarksEpisodes ==
    (/\ forgetIO.state = "returned"
     /\ ~forgetIO.hard_delete
     /\ \E j \in 1..Len(forgetIO.deleted_items) :
            forgetIO.deleted_items[j] = DeletedItem("episodes", "marked_redacted", 0))
        => \A e \in episodes : e.guid = forgetIO.guid => "redacted" \in DOMAIN e

\* C19: a call through _retry_with_backoff makes at most max_retries
\* attempts; a ClientError on attempt i before the last one is followed by a
\* sleep of retry_delay * 2^i and one more attempt; a success ends the call at
\* once with the value; a ClientError on the last attempt is raised to the
\* caller without another attempt.
C19_BoundedExponentialBackoff ==
    embedIO.kind # "-" =>
        LET outs == embedIO.outs
            made == embedIO.attempts
            max_retries == settings.max_retries
        IN  /\ made <= max_retries
            /\ \A i \in 0..(made - 1) :
                   /\ (outs[i + 1].kind = "client_error" /\ i < max_retries - 1)
                          => /\ made > i + 1
                             /\ embedIO.waits[i + 1] = settings.retry_delay * (2 ^ i)
                   /\ outs[i + 1].kind = "ok"
                          => made = i + 1 /\ embedIO.kind = "value"
                   /\ (outs[i + 1].kind = "client_error" /\ i = max_retries - 1)
                          => made = max_retries /\ embedIO.kind = "raise"
            /\ Len(embedIO.waits) < max_retries \/ max_retries = 0

\* C19 witness: with max_retries = 3 the first two attempts raised ClientError
\* and were followed by sleeps of retry_delay and 2 * retry_delay, and the
\* third attempt raised as well and ended the call.
C19_Witness ==
    /\ settings.max_retries = 3 /\ settings.retry_delay = 2
    /\ embedIO.kind = "raise" /\ embedIO.attempts = 3
    /\ embedIO.waits = <<2, 4>>

\* C20: calculate_score returns a defined number, in which every sub-term
\* that is undefined counts as 0: the similarity for a zero-norm, empty or
\* length-mismatched embedding, the recency for a missing or unparseable
\* timestamp, the importance for a missing or null importance or an unknown
\* priority.
C20_ScoreAlwaysDefined ==
    scoreIO.state = "returned" =>
        LET ep == scoreIO.episode
            qe == scoreIO.query_embedding
            out == scoreIO.out
            ZeroOrNone(v) == v = <<>> \/ v = <<0, 0>>
        IN  /\ ~out.raised
            /\ ~out.nan
            /\ (~ep.has_embedding \/ ZeroOrNone(ep.embedding) \/ ZeroOrNone(qe)
                    \/ Len(ep.embedding) # Len(qe)) => out.sim = 0
            /\ ep.timestamp.t # "num" => out.recency = 0
            /\ (ep.importance.t # "num" \/ ep.priority = "urgent") => out.importance = 0
            /\ out.score = 55 * out.sim + 20 * out.recency + 15 * out.importance
                               + 10 * out.graph

\* C21: a search_memory that returned success made one reasoning call for the
\* context card, over the query, the first 5 facts, the 5 highest-scored
\* episodes and the first 3 graph hits; when that call failed the card is the
\* empty string and the search still returned success.
C21_CardInput ==
    (searchIO.state = "returned" /\ searchIO.ret = "success") =>
        /\ searchIO.card_input.query = searchIO.req.query
        /\ searchIO.card_input.facts = Prefix(searchIO.facts, CardFacts)
        /\ searchIO.card_input.episodes = Prefix(searchIO.episodes, TopEpisodes)
        /\ searchIO.card_input.graph_hits = Prefix(searchIO.graph_hits, CardGraphHits)
        /\ "card" \in searchIO.failures => searchIO.context_card = ""

\* the place of a store operation in the order of the claim
OpRank(op) ==
    CASE op = "upsert_fact" -> 1
      [] op = "upsert_episode" -> 2
      [] op = "upsert_user" -> 3
      [] op = "upsert_entity" -> 4
      [] op = "upsert_fact_rel" -> 5
      [] op = "upsert_triple" -> 6
      [] OTHER -> 0

\* C22: the store operations a write_memory call has issued so far are in the
\* order fact upserts, episode upsert, owner-anchor upsert, entity upserts,
\* fact-relationship upserts, triple upserts; every fact-relationship or
\* triple upsert comes after the owner-anchor upsert of the same call.
C22_StoreOperationOrder ==
    \A w \in Writers :
        LET calls == wr[w].calls
            ops == {i \in 1..Len(calls) : OpRank(calls[i].op) > 0}
        IN  /\ \A i, j \in ops : i < j => OpRank(calls[i].op) <= OpRank(calls[j].op)
            /\ \A j \in ops :
                   calls[j].op \in {"upsert_fact_rel", "upsert_triple"}
                       => \E i \in ops : i < j /\ calls[i].op = "upsert_user"
            /\ \A i, j \in ops :
                   (i # j /\ calls[i].op = calls[j].op)
                       => calls[i].op \notin {"upsert_episode", "upsert_user"}

\* C22 witness: a call returned success after issuing operations of all six
\* kinds.
C22_Witness ==
    /\ wr["w1"].pc = "returned" /\ wr["w1"].ret = "success"
    /\ {wr["w1"].calls[i].op : i \in 1..Len(wr["w1"].calls)}
           = {"upsert_fact", "upsert_episode", "upsert_user", "upsert_entity",
              "upsert_fact_rel", "upsert_triple"}

\* the place of the candidate with this id in the list the EpisodeStore gave
CandidateIndex(id) ==
    CHOOSE i \in 1..Len(searchIO.candidates) : searchIO.candidates[i].id = id

\* C23: the episodes a successful search_memory returns are the candidates of
\* the EpisodeStore, each once, in order of non-increasing fused score, two
\* of equal score in the order the EpisodeStore returned them.
C23_StableDescendingOrder ==
    (searchIO.state = "returned" /\ searchIO.ret = "success") =>
        LET eps == searchIO.episodes
            cands == searchIO.candidates
        IN  /\ Len(eps) = Len(cands)
            /\ \A i \in 1..Len(cands) :
                   Cardinality({j \in 1..Len(eps) : eps[j].hit = cands[i]}) = 1
            /\ \A i, j \in 1..Len(eps) : i < j => eps[i].score >= eps[j].score
            /\ \A i, j \in 1..Len(eps) :
                   (i < j /\ eps[i].score = eps[j].score)
                       => CandidateIndex(eps[i].hit.id) < CandidateIndex(eps[j].hit.id)

\* C23 witness: a search returned at least three episodes, two of them with
\* the same score, in an order other than the one the EpisodeStore gave.
C23_Witness ==
    /\ searchIO.state = "returned" /\ searchIO.ret = "success"
    /\ Len(searchIO.episodes) >= 3
    /\ \E i, j \in 1..Len(searchIO.episodes) :
           i # j /\ searchIO.episodes[i].score = searchIO.episodes[j].score
    /\ \E i \in 1..Len(searchIO.episodes) :
           searchIO.episodes[i].hit # searchIO.candidates[i]


\* C24: for every parseable reasoning output extract_all keeps exactly these
\* items: a fact iff its confidence >= threshold, an episode iff its
\* importance >= threshold, an entity iff its type is one of the 8 permitted
\* types (nothing else is asked of an entity), a triple iff its predicate is
\* one of the 7 permitted and its confidence >= threshold.
C24_KeptExactly ==
    (extractIO.state = "returned" /\ ~extractIO.out.raised
        /\ extractIO.r1.kind = "object" /\ extractIO.r2.kind = "object")
        => /\ extractIO.out.facts
                  = SelectSeq(extractIO.r1.a,
                        LAMBDA f : GetOrZero(f.confidence) >= confidence_threshold)
           /\ extractIO.out.episodes
                  = SelectSeq(extractIO.r1.b,
                        LAMBDA e : GetOrZero(e.confidence) >= confidence_threshold)
           /\ extractIO.out.entities
                  = SelectSeq(extractIO.r2.a, LAMBDA e : e.type \in ValidTypes)
           /\ extractIO.out.triples
                  = SelectSeq(extractIO.r2.b,
                        LAMBDA t : /\ t.predicate \in ValidPredicates
                                   /\ GetOrZero(t.confidence) >= confidence_threshold)


\* a step of write_memory, and a step that is a search_memory or a
\* summarize_memory call
WriteStep == wr' # wr
ReadStep ==
    \/ searchIO' # searchIO /\ searchIO'.state # "unused"
    \/ summarizeIO' # summarizeIO /\ summarizeIO'.state # "unused"

C26_WithinSinceDays ==
    (searchIO.state = "returned" /\ searchIO.ret = "success")
        => /\ \A i \in 1..Len(searchIO.episodes) :
                  LET hit == searchIO.episodes[i].hit
                  IN  /\ hit.id[1] = searchIO.req.guid
                      /\ now - hit.timestamp.v <= searchIO.req.since_days
           /\ \A i \in 1..Len(searchIO.facts) :
                  searchIO.facts[i].confidence >= SearchMinConf


\* what the stores hold for owner g: the owner's fact rows, the owner's
\* episodes, and the part of the graph joined to the owner's anchor
ViewOf(table, eps, nodes, edges, g) ==
    LET comp == IF HasNode(Graph(nodes, edges), NodeId(UserNode(g)))
                THEN ConnectedTo(edges, {NodeId(UserNode(g))}) ELSE {}
    IN  [facts |-> {r \in table : r.guid = g},
         episodes |-> {e \in eps : e.guid = g},
         graph |-> Graph({n \in nodes : NodeId(n) \in comp},
                         {e \in edges : e.src \in comp})]

\* the owner a step acts for: the writer's, or the one a forget names
ActingOwner ==
    IF wr' # wr THEN wr'["w1"].guid
    ELSE IF forgetIO'.state = "returned" THEN forgetIO'.guid
    ELSE "-"

\* C27: owner isolation.  No write_memory or forget_memory step of an owner
\* changes what the stores hold for another owner (so a forget for A removes
\* no fact or episode of B), and the facts and episodes a search_memory for A
\* returns are those it returns over A's part of the stores alone, all of
\* them A's.
C27_OwnerIsolation ==
    [][/\ \A a \in Owners \ {ActingOwner} :
              ViewOf(facts', episodes', gNodes', gEdges', a)
                  = ViewOf(facts, episodes, gNodes, gEdges, a)
       /\ (searchIO' # searchIO /\ searchIO'.state = "returned")
              => LET req == searchIO'.req
                     V == ViewOf(facts, episodes, gNodes, gEdges, req.guid)
                 IN  /\ searchIO'.candidates
                            \in query_similar(V.episodes, req.guid,
                                              EmbeddingsOf(req.query), req.k,
                                              req.since_days, now, TRUE)
                     /\ \A i \in 1..Len(searchIO'.candidates) :
                            searchIO'.candidates[i].id[1] = req.guid
                     /\ searchIO'.ret = "success"
                            => /\ searchIO'.facts
                                      \in get_facts(V.facts, req.guid, SearchMinConf)
                               /\ \A i \in 1..Len(searchIO'.facts) :
                                      searchIO'.facts[i].guid = req.guid
                               /\ Len(searchIO'.episodes) = Len(searchIO'.candidates)
                     /\ SearchPaths(V.graph, req, TRUE)
                            = SearchPaths(CurrentGraph, req, TRUE)
                     /\ \A i \in 1..Len(QueryTokens(req.query)) :
                            shortest_path_len(V.graph, req.guid,
                                              QueryTokens(req.query)[i], TRUE)
                                = shortest_path_len(CurrentGraph, req.guid,
                                                    QueryTokens(req.query)[i], TRUE)]_vars

\* C27 witness: u1 has written k1 and an episode and then forgotten all it
\* had, and a search for u2 returns u2's fact and u2's episode.
C27_Witness ==
    /\ wr["w1"].pc = "returned" /\ wr["w1"].guid = "u1" /\ wr["w1"].ret = "success"
    /\ {r \in facts : r.guid = "u1"} = {}
    /\ {e \in episodes : e.guid = "u1"} = {}
    /\ searchIO.state = "returned" /\ searchIO.ret = "success"
    /\ searchIO.req.guid = "u2"
    /\ Len(searchIO.facts) = 1 /\ Len(searchIO.episodes) = 1


\* every store call the write_memory call w issued succeeded, and it issued
\* the two that carry the fact
AllStoreCallsSucceeded(w) ==
    /\ wr[w].ret = "success"
    /\ \A i \in 1..Len(wr[w].calls) : wr[w].calls[i].ok
    /\ \E i, j \in 1..Len(wr[w].calls) :
           wr[w].calls[i].op = "upsert_fact" /\ wr[w].calls[j].op = "upsert_fact_rel"

\* C28: once the write_memory calls for the owner u1 and the key k1 have all
\* completed with every store call succeeding, the value of the FactStore row
\* equals the value on the owner's Fact node, under every interleaving of the
\* calls.
C28_FactStoreMatchesFactNode ==
    (BothReturned /\ \A w \in Writers : AllStoreCallsSucceeded(w))
        => \A r \in RowsOf(facts, "u1", "k1") :
               \A n \in gNodes :
                   NodeId(n) = <<"Fact", "k1", "u1">> => n.val = r.value


\* the entity names the write_memory call w upserted: its entities, and the
\* subjects and objects of its triples
UpsertedNames(w) ==
    {wr[w].ext.entities[i].name : i \in 1..Len(wr[w].ext.entities)}
    \cup {wr[w].ext.triples[i].subject : i \in 1..Len(wr[w].ext.triples)}
    \cup {wr[w].ext.triples[i].object : i \in 1..Len(wr[w].ext.triples)}

\* C29: after a write_memory call completed with every store call
\* succeeding, every entity, triple subject and triple object it upserted is
\* reachable from the owner's anchor: shortest_path_len(owner, name) is below
\* 99 and find_paths(owner, name) returns a path.
C29_UpsertedReachableFromAnchor ==
    (/\ wr["w1"].pc = "returned" /\ wr["w1"].ret = "success"
     /\ \A i \in 1..Len(wr["w1"].calls) : wr["w1"].calls[i].ok)
        => \A name \in UpsertedNames("w1") :
               /\ \A len \in shortest_path_len(CurrentGraph, wr["w1"].guid, name, TRUE) :
                      len < UnreachableLen
               /\ find_paths(CurrentGraph, wr["w1"].guid, name, FindPathsK, TRUE) # <<>>


\* the keys forget_memory reported as 'fact:<key>'
ReportedKeys ==
    {forgetIO.deleted_items[i].arg :
        i \in {j \in 1..Len(forgetIO.deleted_items) :
                  forgetIO.deleted_items[j].item = "fact"}}

\* C30: after forget_memory reported 'fact:k' for an owner, and before any
\* later write, neither get_facts nor get_subgraph returns fact k of that
\* owner (find_paths ends at Entity nodes that no Fact node is joined to).
C30_ForgottenFactGone ==
    (forgetIO.state = "returned" /\ wr["w1"].pc = "idle")
        => \A k \in ReportedKeys :
               /\ \A sq \in get_facts(facts, forgetIO.guid, 0) :
                      \A i \in 1..Len(sq) : sq[i].key # k
               /\ \A n \in get_subgraph(CurrentGraph, forgetIO.guid, TRUE) :
                      ~(n.label = "Fact" /\ n.a = k)

====
